---- MODULE Spec2Model ----
(***************************************************************************)
(* Model of the clean_coder_integration package: the requirement-to-       *)
(* completion pipeline (RequirementsAnalyzer, GitHubAnalyzer,              *)
(* SlackIntegration, CleanCoderPlanner) and its command line.              *)
(*                                                                         *)
(* Text is modelled as a sequence of one-character strings, so that        *)
(* lower-casing, tokenizing and the substring test are computed, not       *)
(* assumed.                                                                *)
(***************************************************************************)
EXTENDS Integers, Sequences, FiniteSets, TLC

(* ------------------------------- state -------------------------------- *)

VARIABLES
  docs_folder,     \* the documentation folder
  history,     \* the commits of the lookback window, newest first
  clock,    \* the wall clock, in seconds
  args,     \* the arguments SlackIntegration was constructed with
  environ,      \* the process environment and what the secret store answers
  slack_integration,    \* SlackIntegration: channel, token, client
  git_answers,    \* how the git executable answers in this environment
  slack_answers,  \* how the Slack API answers a chat_postMessage / chat_update
  planner,  \* CleanCoderPlanner: implementation_steps, current_plan_file, last_update_time
  output_folder,    \* the output folder: plan file text by the timestamp in its name
  uuids,      \* the number of extractions that drew fresh ids (uuid4)
  loop,     \* where run_continuous_loop stands: idle (not running), cycle, sleep
  last,     \* the last call: what it did, returned and raised
  calls,    \* the number of planner operations this process has run
  cli,      \* the command line process: arguments, position, exit status
  probe     \* the arguments and the result of the last application of a pure function

vars == <<docs_folder, history, clock, args, environ, slack_integration, git_answers, slack_answers, planner, output_folder, uuids, loop, last, calls, cli, probe>>

(* ------------------------------ text ---------------------------------- *)

UpperLetters == <<"A","B","C","D","E","F","G","H","I","J","K","L","M",
                  "N","O","P","Q","R","S","T","U","V","W","X","Y","Z">>
LowerLetters == <<"a","b","c","d","e","f","g","h","i","j","k","l","m",
                  "n","o","p","q","r","s","t","u","v","w","x","y","z">>
Digits == {"0","1","2","3","4","5","6","7","8","9"}

\* the sequence with the elements of f, for f with domain 1..n
SeqOf(f) == f \o <<>>

\* str.lower() on one character
LowerChar(c) ==
  IF \E i \in 1..26 : UpperLetters[i] = c
  THEN LowerLetters[CHOOSE i \in 1..26 : UpperLetters[i] = c]
  ELSE c

\* str.lower()
Lower(s) == SeqOf([i \in 1..Len(s) |-> LowerChar(s[i])])

\* the regular expression class \w
IsWordChar(c) ==
  \/ \E i \in 1..26 : UpperLetters[i] = c \/ LowerLetters[i] = c
  \/ c \in Digits
  \/ c = "_"

\* Python's `kw in text` on strings
Contains(text, kw) ==
  \E i \in 0..(Len(text) - Len(kw)) : SubSeq(text, i + 1, i + Len(kw)) = kw

\* re.findall(r'\b\w+\b', s): the maximal runs of word characters, in order
RECURSIVE FindWords(_, _, _)
FindWords(s, i, cur) ==
  IF i > Len(s)
  THEN IF cur = <<>> THEN <<>> ELSE <<cur>>
  ELSE IF IsWordChar(s[i])
       THEN FindWords(s, i + 1, Append(cur, s[i]))
       ELSE IF cur = <<>>
            THEN FindWords(s, i + 1, <<>>)
            ELSE <<cur>> \o FindWords(s, i + 1, <<>>)

Range(f) == {f[i] : i \in DOMAIN f}

(* ------------------------ GitHubAnalyzer: matching -------------------- *)

common_words ==
  { <<"a">>,
    <<"a","n">>,
    <<"t","h","e">>,
    <<"a","n","d">>,
    <<"o","r">>,
    <<"b","u","t">>,
    <<"i","f">>,
    <<"t","h","e","n">>,
    <<"e","l","s","e">>,
    <<"w","h","e","n">>,
    <<"a","t">>,
    <<"f","r","o","m">>,
    <<"b","y">>,
    <<"f","o","r">>,
    <<"w","i","t","h">>,
    <<"a","b","o","u","t">>,
    <<"a","g","a","i","n","s","t">>,
    <<"b","e","t","w","e","e","n">>,
    <<"i","n","t","o">>,
    <<"t","h","r","o","u","g","h">>,
    <<"d","u","r","i","n","g">>,
    <<"b","e","f","o","r","e">>,
    <<"a","f","t","e","r">>,
    <<"a","b","o","v","e">>,
    <<"b","e","l","o","w">>,
    <<"t","o">>,
    <<"o","f">>,
    <<"i","n">>,
    <<"o","n">>,
    <<"i","s">>,
    <<"a","r","e">>,
    <<"w","a","s">>,
    <<"w","e","r","e">>,
    <<"b","e">>,
    <<"b","e","e","n">>,
    <<"b","e","i","n","g">>,
    <<"h","a","v","e">>,
    <<"h","a","s">>,
    <<"h","a","d">>,
    <<"d","o">>,
    <<"d","o","e","s">>,
    <<"d","i","d">>,
    <<"w","i","l","l">>,
    <<"w","o","u","l","d">>,
    <<"s","h","a","l","l">>,
    <<"s","h","o","u","l","d">>,
    <<"m","a","y">>,
    <<"m","i","g","h","t">>,
    <<"m","u","s","t">>,
    <<"c","a","n">>,
    <<"c","o","u","l","d">>,
    <<"i","m","p","l","e","m","e","n","t">>,
    <<"s","e","t">>,
    <<"u","p">>,
    <<"c","r","e","a","t","e">>,
    <<"a","d","d">>,
    <<"b","u","i","l","d">>,
    <<"d","e","v","e","l","o","p">>,
    <<"m","a","k","e">>,
    <<"u","i">> }

\* GitHubAnalyzer._extract_keywords
_extract_keywords(text) ==
  LET words == FindWords(Lower(text), 1, <<>>)
  IN  {w \in Range(words) : w \notin common_words /\ Len(w) > 2}

\* a strict comparison in place of >=
HasEnoughStrict(text, keywords) ==
  IF keywords = {} THEN FALSE
  ELSE LET present_keywords == Cardinality({k \in keywords : Contains(text, k)})
       IN  2 * present_keywords > Cardinality(keywords)

\* GitHubAnalyzer._has_enough_keywords with the default threshold 0.5:
\* present / len(keywords) >= 0.5, compared exactly as 2 * present >= len
_has_enough_keywords(text, keywords) ==
  IF keywords = {} THEN FALSE
  ELSE LET present_keywords == Cardinality({k \in keywords : Contains(text, k)})
       IN  2 * present_keywords >= Cardinality(keywords)

(* ----------------------- RequirementsAnalyzer ------------------------- *)

NL == "\n"

\* the regular expression class \s
IsSpace(c) == c \in {" ", NL, "\t"}

\* first index >= i of s that holds no whitespace (Len(s) + 1 if none): greedy \s*
RECURSIVE SkipSpaces(_, _)
SkipSpaces(s, i) ==
  IF i <= Len(s) /\ IsSpace(s[i]) THEN SkipSpaces(s, i + 1) ELSE i

\* first index >= i of s that holds no digit: greedy \d*
RECURSIVE SkipDigits(_, _)
SkipDigits(s, i) ==
  IF i <= Len(s) /\ s[i] \in Digits THEN SkipDigits(s, i + 1) ELSE i

\* index of the line end at or after i: where $ matches under re.MULTILINE
RECURSIVE LineEnd(_, _)
LineEnd(s, i) ==
  IF i <= Len(s) /\ s[i] # NL THEN LineEnd(s, i + 1) ELSE i

\* where ^ matches under re.MULTILINE
AtLineStart(s, i) == i = 1 \/ (i - 1 <= Len(s) /\ s[i - 1] = NL)

\* str.strip()
RECURSIVE StripLeft(_)
StripLeft(s) == IF s # <<>> /\ IsSpace(Head(s)) THEN StripLeft(Tail(s)) ELSE s
RECURSIVE StripRight(_)
StripRight(s) ==
  IF s # <<>> /\ IsSpace(s[Len(s)]) THEN StripRight(SubSeq(s, 1, Len(s) - 1)) ELSE s
Strip(s) == StripRight(StripLeft(s))

StartsWithAt(s, i, pat) ==
  i + Len(pat) - 1 <= Len(s) /\ SubSeq(s, i, i + Len(pat) - 1) = pat

\* str.endswith
EndsWith(s, suffix) ==
  Len(suffix) <= Len(s) /\ SubSeq(s, Len(s) - Len(suffix) + 1, Len(s)) = suffix

\* str.split(sep) for a non-empty separator
RECURSIVE SplitFrom(_, _, _, _)
SplitFrom(s, sep, i, start) ==
  IF i > Len(s) THEN <<SubSeq(s, start, Len(s))>>
  ELSE IF StartsWithAt(s, i, sep)
       THEN <<SubSeq(s, start, i - 1)>> \o SplitFrom(s, sep, i + Len(sep), i + Len(sep))
       ELSE SplitFrom(s, sep, i + 1, start)
Split(s, sep) == SplitFrom(s, sep, 1, 1)

\* '\n'.join(lines)
RECURSIVE JoinLines(_)
JoinLines(lines) ==
  IF lines = <<>> THEN <<>>
  ELSE IF Len(lines) = 1 THEN lines[1]
  ELSE lines[1] \o <<NL>> \o JoinLines(Tail(lines))

\* re.split(r'##\s+', content)
RECURSIVE SplitSections(_, _, _)
SplitSections(s, i, start) ==
  IF i > Len(s) THEN <<SubSeq(s, start, Len(s))>>
  ELSE IF StartsWithAt(s, i, <<"#", "#">>) /\ i + 2 <= Len(s) /\ IsSpace(s[i + 2])
       THEN LET e == SkipSpaces(s, i + 2)
            IN  <<SubSeq(s, start, i - 1)>> \o SplitSections(s, e, e)
       ELSE SplitSections(s, i + 1, start)

NoMatch == [ok |-> FALSE, group |-> <<>>, status |-> "", end |-> 0]

\* the group (.*?)$ from b to the end e of its line
MatchedLine(s, b, e, status) ==
  [ok |-> TRUE, group |-> SubSeq(s, b, e - 1), status |-> status, end |-> e]

\* \s+(.*?)$ after a marker that ends before m (m = 0: no marker)
MatchItemText(s, m, status) ==
  IF m = 0 \/ m > Len(s) \/ ~IsSpace(s[m]) THEN NoMatch
  ELSE MatchedLine(s, SkipSpaces(s, m), LineEnd(s, SkipSpaces(s, m)), status)

\* [-*+] at a: the index after it, or 0
BulletEnd(s, a) == IF a <= Len(s) /\ s[a] \in {"-", "*", "+"} THEN a + 1 ELSE 0

\* \d+\. at a, the digits ending before d: the index after the dot, or 0
NumberDotEnd(s, a, d) == IF d > a /\ d <= Len(s) /\ s[d] = "." THEN d + 1 ELSE 0

\* (\d+)\.? at a, the digits ending before d: the index after it, or 0
NumberEnd(s, a, d) ==
  IF d > a THEN (IF d <= Len(s) /\ s[d] = "." THEN d + 1 ELSE d) ELSE 0

\* (?:[-*+]|\d+\.) at a
ListMarkerEnd(s, a) ==
  IF BulletEnd(s, a) # 0 THEN BulletEnd(s, a) ELSE NumberDotEnd(s, a, SkipDigits(s, a))

\* one match of  ^\s*(?:[-*+]|\d+\.)\s+(.*?)$  starting at p
MatchListItem(s, p) == MatchItemText(s, ListMarkerEnd(s, SkipSpaces(s, p)), "")

\* \[([ xX])\]\s+(.*?)$ at k
MatchCheckbox(s, k) ==
  IF ~(k + 3 <= Len(s) /\ s[k] = "[" /\ s[k + 1] \in {" ", "x", "X"}
        /\ s[k + 2] = "]" /\ IsSpace(s[k + 3]))
  THEN NoMatch
  ELSE MatchItemText(s, k + 3, s[k + 1])

\* \s+\[([ xX])\]\s+(.*?)$ after a bullet that ends before m (m = 0: no bullet)
MatchAfterBullet(s, m) ==
  IF m = 0 \/ m > Len(s) \/ ~IsSpace(s[m]) THEN NoMatch
  ELSE MatchCheckbox(s, SkipSpaces(s, m))

\* one match of  ^\s*[-*+]\s+\[([ xX])\]\s+(.*?)$  starting at p
MatchTaskItem(s, p) == MatchAfterBullet(s, BulletEnd(s, SkipSpaces(s, p)))

\* one match of  ^\s*(\d+)\.?\s+(.*?)$  starting at p
MatchNumberedAt(s, a) == MatchItemText(s, NumberEnd(s, a, SkipDigits(s, a)), "")
MatchNumberedItem(s, p) == MatchNumberedAt(s, SkipSpaces(s, p))

\* one match of the pattern of the kind starting at p
MatchAt(kind, s, p) ==
  CASE kind = "list" -> MatchListItem(s, p)
    [] kind = "task" -> MatchTaskItem(s, p)
    [] OTHER -> MatchNumberedItem(s, p)

\* re.findall(pattern, s, re.MULTILINE) for the three patterns above: the
\* matches from p on, m being the match tried at p; ^ matches at line starts
\* only, so the search goes on at the start of the next line
RECURSIVE FindAll(_, _, _)
FindAllAfter(kind, s, p, m) ==
  IF m.ok
  THEN <<[group |-> m.group, status |-> m.status]>>
         \o FindAll(kind, s, IF m.end > p THEN m.end ELSE p + 1)
  ELSE FindAll(kind, s, p + 1)
FindAll(kind, s, p) ==
  IF p > Len(s) THEN <<>>
  ELSE IF ~AtLineStart(s, p) THEN FindAll(kind, s, LineEnd(s, p) + 1)
  ELSE FindAllAfter(kind, s, p, MatchAt(kind, s, p))

\* the capture group of each match
Groups(found) == SeqOf([i \in 1..Len(found) |-> found[i].group])

\* [x.strip() for x in items if x.strip()]
StripAll(items) == SeqOf([i \in 1..Len(items) |-> Strip(items[i])])
NonEmpty(items) == SelectSeq(items, LAMBDA item : item # <<>>)

\* RequirementsAnalyzer._extract_list_items: the list items, then the paragraphs
_extract_list_items(text) ==
  NonEmpty(StripAll(Groups(FindAll("list", text, 1))
                      \o NonEmpty(StripAll(Split(text, <<NL, NL>>)))))
FunctionalTitles ==
  { <<"f","e","a","t","u","r","e">>,
    <<"f","u","n","c","t","i","o","n","a","l","i","t","y">>,
    <<"c","a","p","a","b","i","l","i","t","i","e","s">> }
TechnicalTitles ==
  { <<"t","e","c","h","n","i","c","a","l">>,
    <<"i","m","p","l","e","m","e","n","t","a","t","i","o","n">>,
    <<"t","e","c","h","n","o","l","o","g","y">> }
UiTitles ==
  { <<"u","i">>,
    <<"i","n","t","e","r","f","a","c","e">>,
    <<"u","s","e","r"," ","e","x","p","e","r","i","e","n","c","e">> }
ArchitectureTitles ==
  { <<"a","r","c","h","i","t","e","c","t","u","r","e">>,
    <<"s","t","r","u","c","t","u","r","e">>,
    <<"d","e","s","i","g","n">> }
PlanFileNames ==
  { <<"i","m","p","l","e","m","e","n","t","a","t","i","o","n">>,
    <<"p","l","a","n">> }
MdSuffix == <<".","m","d">>
\* 'functional'
CatFunctional ==
  <<"f","u","n","c","t","i","o","n","a","l">>
\* 'technical'
CatTechnical ==
  <<"t","e","c","h","n","i","c","a","l">>
\* 'ui'
CatUi ==
  <<"u","i">>
\* 'architecture'
CatArchitecture ==
  <<"a","r","c","h","i","t","e","c","t","u","r","e">>
\* 'general'
CatGeneral ==
  <<"g","e","n","e","r","a","l">>
\* 'Implement '
PrefixImplement ==
  <<"I","m","p","l","e","m","e","n","t"," ">>
\* 'Implement UI for '
PrefixImplementUI ==
  <<"I","m","p","l","e","m","e","n","t"," ","U","I"," ","f","o","r"," ">>
\* 'Set up '
PrefixSetUp ==
  <<"S","e","t"," ","u","p"," ">>
\* 'spec.md'
NameSpec ==
  <<"s","p","e","c",".","m","d">>
\* 'plan.md'
NamePlan ==
  <<"p","l","a","n",".","m","d">>
\* '## Features\n- Add login\n- Add logout'
TextFeatures ==
  <<"#","#"," ","F","e","a","t","u","r","e","s",NL,"-"," ","A","d","d"," ","l","o","g","i","n",NL,"-"," ","A","d","d"," ","l","o","g","o","u","t">>
\* '## Features\nUser profile page\n\nLogin page\n\n## UI Design\nUI'
TextPages ==
  <<"#","#"," ","F","e","a","t","u","r","e","s",NL,"U","s","e","r"," ","p","r","o","f","i","l","e"," ","p","a","g","e",NL,NL,"L","o","g","i","n"," ","p","a","g","e",NL,NL,"#","#"," ","U","I"," ","D","e","s","i","g","n",NL,"U","I">>
\* '# Plan\n- [x] Setup repo\n- [ ] Login page'
TextPlan ==
  <<"#"," ","P","l","a","n",NL,"-"," ","[","x","]"," ","S","e","t","u","p"," ","r","e","p","o",NL,"-"," ","["," ","]"," ","L","o","g","i","n"," ","p","a","g","e">>
\* 'Add LOGIN flow'
MsgLogin ==
  <<"A","d","d"," ","L","O","G","I","N"," ","f","l","o","w">>
\* 'wip'
MsgWip ==
  <<"w","i","p">>
\* 'Update assets'
MsgAssets ==
  <<"U","p","d","a","t","e"," ","a","s","s","e","t","s">>
\* 'README.md'
PathReadme ==
  <<"R","E","A","D","M","E",".","m","d">>
\* 'src/profile.py'
PathProfile ==
  <<"s","r","c","/","p","r","o","f","i","l","e",".","p","y">>
\* 'logo.png'
PathLogo ==
  <<"l","o","g","o",".","p","n","g">>
\* 'src/old.py'
PathOld ==
  <<"s","r","c","/","o","l","d",".","p","y">>
\* 'Login page and user profile'
ContentReadme ==
  <<"L","o","g","i","n"," ","p","a","g","e"," ","a","n","d"," ","u","s","e","r"," ","p","r","o","f","i","l","e">>
\* 'class UserProfile'
ContentProfile ==
  <<"c","l","a","s","s"," ","U","s","e","r","P","r","o","f","i","l","e">>
\* 'Add login'
ReqAddLogin ==
  <<"A","d","d"," ","l","o","g","i","n">>
\* 'Add logout'
ReqAddLogout ==
  <<"A","d","d"," ","l","o","g","o","u","t">>
\* 'add'
KwAdd ==
  <<"a","d","d">>
\* 'login'
KwLogin ==
  <<"l","o","g","i","n">>
\* 'Implement add login flow'
MsgImplement ==
  <<"I","m","p","l","e","m","e","n","t"," ","a","d","d"," ","l","o","g","i","n"," ","f","l","o","w">>
\* 'Refactor views'
MsgRefactor ==
  <<"R","e","f","a","c","t","o","r"," ","v","i","e","w","s">>
\* 'src/pages.py'
PathPages ==
  <<"s","r","c","/","p","a","g","e","s",".","p","y">>
\* 'user page and login page'
ContentPages ==
  <<"u","s","e","r"," ","p","a","g","e"," ","a","n","d"," ","l","o","g","i","n"," ","p","a","g","e">>
\* 'Implementation.md'
NameImplementation ==
  <<"I","m","p","l","e","m","e","n","t","a","t","i","o","n",".","m","d">>
\* '# Plan\n1. Setup repo\n2 Login page'
TextNumbered ==
  <<"#"," ","P","l","a","n",NL,"1","."," ","S","e","t","u","p"," ","r","e","p","o",NL,"2"," ","L","o","g","i","n"," ","p","a","g","e">>
\* '# Plan\n1. Setup repo\n- [X] Login page'
TextMixed ==
  <<"#"," ","P","l","a","n",NL,"1","."," ","S","e","t","u","p"," ","r","e","p","o",NL,"-"," ","[","X","]"," ","L","o","g","i","n"," ","p","a","g","e">>
\* '# Plan\nUser page'
TextNotes ==
  <<"#"," ","P","l","a","n",NL,"U","s","e","r"," ","p","a","g","e">>
\* excluded_patterns without an anchor: matched anywhere in the path
ExcludedAnywhere ==
  { <<".","g","i","t","/">>,
    <<".","g","i","t","h","u","b","/">>,
    <<"n","o","d","e","_","m","o","d","u","l","e","s","/">>,
    <<"_","_","p","y","c","a","c","h","e","_","_","/">>,
    <<".","v","s","c","o","d","e","/">>,
    <<".","i","d","e","a","/">>,
    <<".","D","S","_","S","t","o","r","e">>,
    <<".","e","n","v">> }
\* excluded_patterns ending in $: matched at the end of the path
ExcludedSuffix ==
  { <<".","l","o","g">>,
    <<".","m","d">>,
    <<".","j","s","o","n">>,
    <<".","l","o","c","k">>,
    <<".","t","x","t">>,
    <<".","c","s","v">>,
    <<".","y","m","l">>,
    <<".","y","a","m","l">>,
    <<".","t","o","m","l">>,
    <<".","i","n","i">>,
    <<".","c","f","g">> }

\* a key a step dictionary does not hold
Absent == "absent"
NoFile == <<>>
NoCategory == <<>>

Categories == <<CatFunctional, CatTechnical, CatUi, CatArchitecture>>

RECURSIVE Flatten(_)
Flatten(seqs) == IF seqs = <<>> THEN <<>> ELSE Head(seqs) \o Flatten(Tail(seqs))

\* all orders in which a finite set can be listed: list(set(...))
RECURSIVE ListsOfSet(_)
ListsOfSet(S) ==
  IF S = {} THEN {<<>>}
  ELSE UNION {{<<x>> \o l : l \in ListsOfSet(S \ {x})} : x \in S}

\* RequirementsAnalyzer.load_docs: the .md files of the folder, in listing order;
\* a missing or unreadable folder gives no documents
load_docs(folder) ==
  IF ~folder.exists THEN <<>>
  ELSE SelectSeq(folder.files, LAMBDA f : EndsWith(f.name, MdSuffix))

ContainsAny(text, keywords) == \E k \in keywords : Contains(text, k)

\* the if/elif chain of extract_requirements on a lower-cased section title
CategoryOfTitle(t) ==
  IF ContainsAny(t, FunctionalTitles) THEN CatFunctional
  ELSE IF ContainsAny(t, TechnicalTitles) THEN CatTechnical
  ELSE IF ContainsAny(t, UiTitles) THEN CatUi
  ELSE IF ContainsAny(t, ArchitectureTitles) THEN CatArchitecture
  ELSE NoCategory

SectionCategory(section_title) == CategoryOfTitle(Lower(section_title))

\* a section's first line is its title, the rest its content
SectionOfLines(lines) ==
  [title |-> Strip(lines[1]), content |-> Strip(JoinLines(Tail(lines)))]

Sections(all) == SeqOf([i \in 1..Len(all) |-> SectionOfLines(Split(all[i], <<NL>>))])

\* the non-blank sections of all documents, each as title and content
SectionsOf(loaded) ==
  Sections(Flatten(SeqOf([i \in 1..Len(loaded) |->
             SelectSeq(SplitSections(loaded[i].content, 1, 1),
                       LAMBDA s : Strip(s) # <<>>)])))

\* the list items of the sections of category c, in document order
ItemsOf(secs, c) ==
  Flatten(SeqOf([i \in 1..Len(secs) |->
     IF SectionCategory(secs[i].title) = c
     THEN _extract_list_items(secs[i].content) ELSE <<>>]))

RequirementsOf(secs) ==
  [c \in Range(Categories) |-> {r \in Range(ItemsOf(secs, c)) : r # <<>>}]

\* RequirementsAnalyzer.extract_requirements: category -> set of requirements
extract_requirements(loaded) == RequirementsOf(SectionsOf(loaded))

\* the lists the requirement sets may be turned into (set order is arbitrary)
RequirementLists(requirements) ==
  {[c \in Range(Categories) |->
      CASE c = CatFunctional -> f
        [] c = CatTechnical -> t
        [] c = CatUi -> u
        [] OTHER -> a] :
     f \in ListsOfSet(requirements[CatFunctional]),
     t \in ListsOfSet(requirements[CatTechnical]),
     u \in ListsOfSet(requirements[CatUi]),
     a \in ListsOfSet(requirements[CatArchitecture])}

\* the steps of the task-list items of a document
TaskSteps(task_list_items) ==
  SeqOf([i \in 1..Len(task_list_items) |->
     [description |-> Strip(task_list_items[i].group),
      completed |-> LowerChar(task_list_items[i].status) = "x",
      source |-> "documentation",
      category |-> NoCategory]])

\* the steps of the numbered items of a document
NumberedSteps(numbered_items) ==
  SeqOf([i \in 1..Len(numbered_items) |->
     [description |-> Strip(numbered_items[i].group),
      completed |-> FALSE,
      source |-> "documentation",
      category |-> NoCategory]])

\* an extraction that turns the numbered items into steps in every document
StepsOfAllItems(task_list_items, numbered_items) ==
  TaskSteps(task_list_items) \o NumberedSteps(numbered_items)

\* numbered items are looked at only when no task-list item gave a step
StepsOfItems(task_list_items, numbered_items) ==
  IF task_list_items # <<>> THEN TaskSteps(task_list_items)
  ELSE NumberedSteps(numbered_items)

\* RequirementsAnalyzer._extract_implementation_steps
_extract_implementation_steps(content) ==
  StepsOfItems(FindAll("task", content, 1), FindAll("numbered", content, 1))

\* the steps generated for one category's requirements
StepsOfCategory(reqs, c, prefix) ==
  SeqOf([i \in 1..Len(reqs) |->
     [description |-> prefix \o reqs[i],
      completed |-> FALSE,
      source |-> "generated",
      category |-> c]])

\* RequirementsAnalyzer._generate_steps_from_requirements
_generate_steps_from_requirements(lists) ==
  StepsOfCategory(lists[CatFunctional], CatFunctional, PrefixImplement)
    \o StepsOfCategory(lists[CatTechnical], CatTechnical, PrefixImplement)
    \o StepsOfCategory(lists[CatUi], CatUi, PrefixImplementUI)
    \o StepsOfCategory(lists[CatArchitecture], CatArchitecture, PrefixSetUp)

\* the steps found in the documents named as a plan, in listing order
DocumentedSteps(loaded) ==
  Flatten(SeqOf([i \in 1..Len(loaded) |->
     IF ContainsAny(Lower(loaded[i].name), PlanFileNames)
     THEN _extract_implementation_steps(loaded[i].content) ELSE <<>>]))

\* a generation that falls back to one general step when it found nothing
StepsOrPlaceholder(found, lists) ==
  IF found # <<>> THEN found
  ELSE IF _generate_steps_from_requirements(lists) # <<>>
  THEN _generate_steps_from_requirements(lists)
  ELSE <<[description |-> CatGeneral, completed |-> FALSE, source |-> "generated",
          category |-> CatGeneral]>>

\* lines 132-134: the documented steps, or else the generated ones
StepsOrGenerated(found, lists) ==
  IF found # <<>> THEN found ELSE _generate_steps_from_requirements(lists)

\* RequirementsAnalyzer.generate_implementation_steps; lists is the order the
\* requirement sets were listed in
generate_implementation_steps(folder, lists) ==
  StepsOrGenerated(DocumentedSteps(load_docs(folder)), lists)

\* the documentation folders the model draws from
Missing == [exists |-> FALSE, files |-> <<>>]
FolderFeatures == [exists |-> TRUE, files |-> <<[name |-> NameSpec, content |-> TextFeatures]>>]
FolderPages == [exists |-> TRUE, files |-> <<[name |-> NameSpec, content |-> TextPages]>>]
FolderPlan == [exists |-> TRUE, files |-> <<[name |-> NamePlan, content |-> TextPlan]>>]
FolderNumbered == [exists |-> TRUE, files |-> <<[name |-> NamePlan, content |-> TextNumbered]>>]
FolderMixed == [exists |-> TRUE, files |-> <<[name |-> NamePlan, content |-> TextMixed]>>]
FolderBoth ==
  [exists |-> TRUE, files |-> <<[name |-> NameSpec, content |-> TextFeatures],
                                [name |-> NameImplementation, content |-> TextPlan],
                                [name |-> NamePlan, content |-> TextNumbered]>>]
FolderNotes ==
  [exists |-> TRUE, files |-> <<[name |-> NamePlan, content |-> TextNotes],
                                [name |-> NameSpec, content |-> TextPages]>>]
DocFolders ==
  {Missing, FolderFeatures, FolderPages, FolderPlan,
   FolderNumbered, FolderMixed, FolderBoth, FolderNotes}

\* what generate_implementation_steps may return for a folder: one list for each
\* order the requirement sets may be listed in
Extractions(folder) ==
  {generate_implementation_steps(folder, lists) :
     lists \in RequirementLists(extract_requirements(load_docs(folder)))}

\* Extractions tabulated on the folders (computed once)
ExtractionTable == [f \in DocFolders |-> Extractions(f)]

(* --------------------------- GitHubAnalyzer --------------------------- *)

\* what the working tree holds at a path when open() is called on it
Deleted == "deleted"
Binary == "binary"
WorkTree(path) ==
  CASE path = PathReadme -> [kind |-> "text", content |-> ContentReadme]
    [] path = PathProfile -> [kind |-> "text", content |-> ContentProfile]
    [] path = PathLogo -> [kind |-> Binary, content |-> <<>>]
    [] path = PathPages -> [kind |-> "text", content |-> ContentPages]
    [] OTHER -> [kind |-> Deleted, content |-> <<>>]

\* the commits the history may hold
CommitPool ==
  { [sha |-> "c1", message |-> MsgLogin, files |-> <<PathReadme, PathOld>>],
    [sha |-> "c2", message |-> MsgWip, files |-> <<PathProfile>>],
    [sha |-> "c3", message |-> MsgAssets, files |-> <<PathLogo>>] }

\* further commits, of the scenarios the analyzer is applied to on its own
ScenarioCommits ==
  { [sha |-> "c4", message |-> MsgImplement, files |-> <<>>],
    [sha |-> "c5", message |-> MsgRefactor, files |-> <<PathProfile, PathPages>>] }

\* how the git executable answers during one analysis:
\*   ok          every call exits 0
\*   log_fails   `git log` exits non-zero (CalledProcessError)
\*   show_fails  `git show` exits non-zero (CalledProcessError)
\*   no_git      there is no git executable (subprocess.run raises FileNotFoundError)
GitOutcomes == {"ok", "log_fails", "show_fails", "no_git"}

NoExc == "none"

\* GitHubAnalyzer.get_recent_commits: only CalledProcessError is caught
get_recent_commits(repo, git) ==
  CASE git = "no_git" -> [exc |-> "FileNotFoundError", value |-> <<>>]
    [] git = "log_fails" -> [exc |-> NoExc, value |-> <<>>]
    [] OTHER -> [exc |-> NoExc, value |-> repo]

\* GitHubAnalyzer.get_changed_files: only CalledProcessError is caught
get_changed_files(commit, git) ==
  CASE git = "no_git" -> [exc |-> "FileNotFoundError", value |-> <<>>]
    [] git = "show_fails" -> [exc |-> NoExc, value |-> <<>>]
    [] OTHER -> [exc |-> NoExc, value |-> commit.files]

\* GitHubAnalyzer.get_file_content with commit_sha = None: open() and read();
\* FileNotFoundError is caught, a decoding error is not
ReadFile(f) ==
  CASE f.kind = Deleted -> [exc |-> NoExc, value |-> <<>>]
    [] f.kind = Binary -> [exc |-> "UnicodeDecodeError", value |-> <<>>]
    [] OTHER -> [exc |-> NoExc, value |-> f.content]

get_file_content(file_path) == ReadFile(WorkTree(file_path))

\* GitHubAnalyzer._is_relevant_file
_is_relevant_file(file_path) ==
  /\ \A p \in ExcludedAnywhere : ~Contains(file_path, p)
  /\ \A p \in ExcludedSuffix : ~EndsWith(file_path, p)

\* ---- the values the history and the documentation are drawn from, and the
\* ---- functions above tabulated on them (each table is computed once)

AllPaths == UNION {Range(c.files) : c \in CommitPool \cup ScenarioCommits}
RelevantPaths == {p \in AllPaths : _is_relevant_file(p)}

\* every text the analyzer may be asked to search: commit messages, file contents
TextPool ==
  {c.message : c \in CommitPool \cup ScenarioCommits}
    \cup {get_file_content(p).value : p \in {q \in AllPaths : get_file_content(q).exc = NoExc}}

\* every description an extraction may give a step
DescriptionPool ==
  UNION {{raw[i].description : i \in 1..Len(raw)} : raw \in UNION Range(ExtractionTable)}

\* _extract_keywords(step["description"].lower()) tabulated on the descriptions
KeywordTable == [d \in DescriptionPool |-> _extract_keywords(Lower(d))]

\* the pairs for which _has_enough_keywords(text.lower(), keywords) holds
SatisfiesTable ==
  UNION {{<<t, d>> : t \in {x \in TextPool : _has_enough_keywords(Lower(x), kw[2])}, d \in {kw[1]}} :
           kw \in {<<e, _extract_keywords(Lower(e))>> : e \in DescriptionPool}}

Satisfies(text, description) == <<text, description>> \in SatisfiesTable

\* the changed files of all commits of the window (all_changed_files)
AllChangedFiles(commits, git) ==
  UNION {Range(get_changed_files(commits[i], git).value) : i \in 1..Len(commits)}

\* the inner loop over all_changed_files for one step (lines 160-174), from
\* position i of the order the set is iterated in
RECURSIVE ScanFiles(_, _, _)
ScanFiles(description, order, i) ==
  IF i > Len(order) THEN [kind |-> "none", file |-> NoFile]
  ELSE IF order[i] \notin RelevantPaths THEN ScanFiles(description, order, i + 1)
  ELSE LET c == get_file_content(order[i])
       IN  IF c.exc # NoExc THEN [kind |-> c.exc, file |-> order[i]]
           ELSE IF Satisfies(c.value, description)
                THEN [kind |-> "match", file |-> order[i]]
                ELSE ScanFiles(description, order, i + 1)

\* any(... for msg in commit_messages) of line 147
ByMessage(commit_messages, description) ==
  \E i \in 1..Len(commit_messages) : Satisfies(commit_messages[i], description)

\* an analysis that recomputes completed from the evidence alone
AnalyzeStepRecompute(step, commit_messages, order) ==
  [exc |-> NoExc,
   step |-> [step EXCEPT !.completed = ByMessage(commit_messages, step.description)]]

\* a scan that notes the file it matched without marking the step
AfterScanNoted(step, r) ==
  CASE r.kind = "match" ->
         [exc |-> NoExc, step |-> [step EXCEPT !.relevant_file = r.file]]
    [] r.kind = "none" -> [exc |-> NoExc, step |-> step]
    [] OTHER -> [exc |-> r.kind, step |-> step]

\* what the scan of the changed files leaves of a step (lines 160-174)
AfterScan(step, r) ==
  CASE r.kind = "match" ->
         [exc |-> NoExc,
          step |-> [step EXCEPT !.completed = TRUE,
                                !.completion_method = "file_content",
                                !.relevant_file = r.file]]
    [] r.kind = "none" -> [exc |-> NoExc, step |-> step]
    [] OTHER -> [exc |-> r.kind, step |-> step]

\* an analysis that looks at the changed files before the commit messages
AnalyzeStepFilesFirst(step, commit_messages, order) ==
  IF step.completed THEN [exc |-> NoExc, step |-> step]
  ELSE IF ScanFiles(step.description, order, 1).kind = "none"
          /\ ByMessage(commit_messages, step.description)
  THEN [exc |-> NoExc,
        step |-> [step EXCEPT !.completed = TRUE,
                              !.completion_method = "commit_message"]]
  ELSE AfterScan(step, ScanFiles(step.description, order, 1))

\* an analysis that records a method on the steps it finds completed as well
AnalyzeStepMethodAlways(step, commit_messages, order) ==
  IF step.completed
  THEN [exc |-> NoExc, step |-> [step EXCEPT !.completion_method = "documentation"]]
  ELSE IF ByMessage(commit_messages, step.description)
  THEN [exc |-> NoExc,
        step |-> [step EXCEPT !.completed = TRUE,
                              !.completion_method = "commit_message"]]
  ELSE AfterScan(step, ScanFiles(step.description, order, 1))

\* the body of the loop `for step in implementation_steps` (lines 137-176):
\* the step after it, and the exception that left it, if any
AnalyzeStep(step, commit_messages, order) ==
  IF step.completed THEN [exc |-> NoExc, step |-> step]
  ELSE IF ByMessage(commit_messages, step.description)
  THEN [exc |-> NoExc,
        step |-> [step EXCEPT !.completed = TRUE,
                              !.completion_method = "commit_message"]]
  ELSE AfterScan(step, ScanFiles(step.description, order, 1))

\* the loop over the steps: the steps are dictionaries changed in place, so the
\* steps before the one that raised keep what the analysis wrote to them
RECURSIVE AnalyzeSteps(_, _, _, _)
AnalyzedFrom(steps, i, commit_messages, order, r) ==
  IF r.exc # NoExc THEN [exc |-> r.exc, steps |-> steps]
  ELSE AnalyzeSteps([steps EXCEPT ![i] = r.step], i + 1, commit_messages, order)

AnalyzeSteps(steps, i, commit_messages, order) ==
  IF i > Len(steps) THEN [exc |-> NoExc, steps |-> steps]
  ELSE AnalyzedFrom(steps, i, commit_messages, order,
                    AnalyzeStep(steps[i], commit_messages, order))

\* the orders in which the set all_changed_files may be iterated
FileOrders(repo, git) ==
  LET c == get_recent_commits(repo, git)
  IN  IF c.exc # NoExc THEN {<<>>} ELSE ListsOfSet(AllChangedFiles(c.value, git))

\* an analysis that returns the completed steps before the pending ones
AnalyzeCompletedFirst(implementation_steps, repo, git, order) ==
  LET c == get_recent_commits(repo, git)
      commits == c.value
      commit_messages == SeqOf([i \in 1..Len(commits) |-> commits[i].message])
      r == AnalyzeSteps(implementation_steps, 1, commit_messages, order)
  IN  IF c.exc # NoExc THEN [exc |-> c.exc, steps |-> implementation_steps]
      ELSE IF \E i \in 1..Len(commits) : get_changed_files(commits[i], git).exc # NoExc
      THEN [exc |-> "FileNotFoundError", steps |-> implementation_steps]
      ELSE [exc |-> r.exc,
            steps |-> SelectSeq(r.steps, LAMBDA s : s.completed)
                        \o SelectSeq(r.steps, LAMBDA s : ~s.completed)]

\* GitHubAnalyzer.analyze_implementation_progress: the steps as the call leaves
\* them, and the exception it raised, if any
analyze_implementation_progress(implementation_steps, repo, git, order) ==
  LET c == get_recent_commits(repo, git)
      commits == c.value
      commit_messages == SeqOf([i \in 1..Len(commits) |-> commits[i].message])
  IN  IF c.exc # NoExc THEN [exc |-> c.exc, steps |-> implementation_steps]
      ELSE IF \E i \in 1..Len(commits) : get_changed_files(commits[i], git).exc # NoExc
      THEN [exc |-> "FileNotFoundError", steps |-> implementation_steps]
      ELSE AnalyzeSteps(implementation_steps, 1, commit_messages, order)
(* ------------------ the float arithmetic of the percentage ------------ *)

\* Python's float is the IEEE 754 double: 53 significant binary digits, every
\* operation rounded to nearest, ties to even. A positive double is kept as
\* [hi, mid, lo, exp]: its 53 significant digits are the 18 digits of hi
\* (the first one is 1), the 18 digits of mid and the 17 digits of lo, and its
\* value is (hi * 2^35 + mid * 2^17 + lo) * 2^(exp - 53).
HiDigits == 18

MidDigits == 18

LoDigits == 17

\* the number of binary digits of a natural number
RECURSIVE BitLength(_)
BitLength(n) == IF n = 0 THEN 0 ELSE 1 + BitLength(n \div 2)

\* the number of zero digits of r / den (0 < r < den) after the binary point
\* and before its first one
RECURSIVE LeadingZeros(_, _)
LeadingZeros(r, den) ==
  IF 2 * r >= den THEN 0 ELSE 1 + LeadingZeros(2 * r, den)

\* a carry out of lo goes into mid, out of mid into hi; a carry out of hi
\* leaves the significand 1000...0 with the exponent one higher
CarryHi(hi, mid, lo, exp) ==
  IF hi < 2^HiDigits THEN [hi |-> hi, mid |-> mid, lo |-> lo, exp |-> exp]
  ELSE [hi |-> 2^(HiDigits - 1), mid |-> 0, lo |-> 0, exp |-> exp + 1]

CarryMid(hi, mid, lo, exp) ==
  IF mid < 2^MidDigits THEN CarryHi(hi, mid, lo, exp)
  ELSE CarryHi(hi + 1, mid - 2^MidDigits, lo, exp)

CarryLo(hi, mid, lo, exp) ==
  IF lo < 2^LoDigits THEN CarryMid(hi, mid, lo, exp)
  ELSE CarryMid(hi, mid + 1, lo - 2^LoDigits, exp)

\* round to nearest, ties to even: the digits kept, and whether what was cut
\* off is more than half a unit of the last place (above) or exactly half
RoundNearestEven(hi, mid, lo, above, half, exp) ==
  CarryLo(hi, mid, IF above \/ (half /\ lo % 2 = 1) THEN lo + 1 ELSE lo, exp)

\* long division of r / den, a group of digits at a time
Quotient(r, den, digits) == (r * 2^digits) \div den

Remainder(r, den, digits) == (r * 2^digits) % den

DivideLo(hi, mid, r, den, exp) ==
  RoundNearestEven(hi, mid, Quotient(r, den, LoDigits),
                   2 * Remainder(r, den, LoDigits) > den,
                   2 * Remainder(r, den, LoDigits) = den, exp)

DivideMid(hi, r, den, exp) ==
  DivideLo(hi, Quotient(r, den, MidDigits), Remainder(r, den, MidDigits), den, exp)

DivideHi(r, den, exp) ==
  DivideMid(Quotient(r, den, HiDigits), Remainder(r, den, HiDigits), den, exp)

\* num / den as a double, for naturals 0 < num < den < 2^12
FloatDiv(num, den) ==
  DivideHi(num * 2^LeadingZeros(num, den), den, -LeadingZeros(num, den))

\* the exact product top hi mid lo has more digits than a double keeps: it is
\* cut to its first 53 digits, the digits cut off decide the rounding
CutProduct(top, hi, mid, lo, cut, exp) ==
  RoundNearestEven(top * 2^(HiDigits - cut) + hi \div 2^cut,
                   (hi % 2^cut) * 2^(MidDigits - cut) + mid \div 2^cut,
                   (mid % 2^cut) * 2^(LoDigits - cut) + lo \div 2^cut,
                   cut > 0 /\ 2 * (lo % 2^cut) > 2^cut,
                   cut > 0 /\ 2 * (lo % 2^cut) = 2^cut,
                   exp + cut)

TimesHi(hi, mid, lo, exp) ==
  CutProduct(hi \div 2^HiDigits, hi % 2^HiDigits, mid, lo,
             BitLength(hi \div 2^HiDigits), exp)

TimesMid(hi, mid, lo, k, exp) ==
  TimesHi(hi * k + mid \div 2^MidDigits, mid % 2^MidDigits, lo, exp)

TimesLo(hi, mid, lo, k, exp) ==
  TimesMid(hi, mid * k + lo \div 2^LoDigits, lo % 2^LoDigits, k, exp)

\* x * k as a double, for a double x and a natural 0 < k < 2^12
FloatTimes(x, k) == TimesLo(x.hi, x.mid, x.lo * k, k, x.exp)

\* int(x) for a double 0 < x < 2^18: the digits before the binary point
FloatInt(x) == IF x.exp <= 0 THEN 0 ELSE x.hi \div 2^(HiDigits - x.exp)

\* the share of the steps that are not completed, in exact arithmetic
PercentageOfPending(completed, total) ==
  IF total = 0 THEN 0 ELSE (100 * (total - completed)) \div total

\* int(completed / total * 100) if total > 0 else 0 (slack_integration.py 163);
\* 0 / total is 0.0 and total / total is 1.0, whose products by 100 are exact
progress_percentage(completed, total) ==
  IF total = 0 \/ completed = 0 THEN 0
  ELSE IF completed = total THEN 100
  ELSE FloatInt(FloatTimes(FloatDiv(completed, total), 100))

(* -------------------------- SlackIntegration -------------------------- *)

\* Python's None; the empty string is "" and both are false in `if not x`
None == "None"
Falsy(x) == x = None \/ x = ""

\* what the secret store lookup of __init__ does when it is tried:
\*   "error"  the lookup or the parsing of the secret raises (caught)
\*   other    the value of secret_data.get('SLACK_API_SECRET'), None if missing
SecretError == "error"

\* constructor arguments with the environment variable asked before the argument
SlackInitEnvFirst(channel, token, env) ==
  LET t1 == IF Falsy(env.SLACK_API_TOKEN) THEN token ELSE env.SLACK_API_TOKEN
      ch == IF Falsy(channel)
            THEN (IF env.SLACK_CHANNEL = None THEN "general" ELSE env.SLACK_CHANNEL)
            ELSE channel
      t2 == IF Falsy(t1) /\ env.AWS_REGION # None
            THEN (IF env.secret = SecretError THEN t1 ELSE env.secret)
            ELSE t1
  IN  [channel |-> ch, token |-> t2, client |-> ~Falsy(t2)]

\* SlackIntegration.__init__
SlackInit(channel, token, env) ==
  LET t1 == IF Falsy(token) THEN env.SLACK_API_TOKEN ELSE token
      ch == IF Falsy(channel)
            THEN (IF env.SLACK_CHANNEL = None THEN "general" ELSE env.SLACK_CHANNEL)
            ELSE channel
      t2 == IF Falsy(t1) /\ env.AWS_REGION # None
            THEN (IF env.secret = SecretError THEN t1 ELSE env.secret)
            ELSE t1
  IN  [channel |-> ch, token |-> t2, client |-> ~Falsy(t2)]

\* how one call of the messaging endpoint ends:
\*   ok               a response with a ts
\*   api_error        the SDK raises SlackApiError (the endpoint answered not-ok)
\*   transport_error  the SDK raises another exception (connection refused,
\*                    name resolution, timeout: urllib's URLError)
SendOutcomes == {"ok", "api_error", "transport_error"}

Ts == "ts"

\* the shape shared by send_implementation_request, send_progress_update and
\* send_validation_result: no client -> None; else one chat_postMessage inside
\* try / except SlackApiError
SlackPost(slack, outcome) ==
  IF ~slack.client THEN [ret |-> None, exc |-> NoExc, calls |-> 0]
  ELSE CASE outcome = "ok" -> [ret |-> Ts, exc |-> NoExc, calls |-> 1]
         [] outcome = "api_error" -> [ret |-> None, exc |-> NoExc, calls |-> 1]
         [] OTHER -> [ret |-> None, exc |-> "URLError", calls |-> 1]

NoMessage == [kind |-> "none"]

\* SlackIntegration.send_implementation_request: the task, the context and the
\* category of the request, posted once
slack_send_implementation_request(slack, step, context, outcome) ==
  LET r == SlackPost(slack, outcome)
  IN  [ret |-> r.ret, exc |-> r.exc, calls |-> r.calls,
       message |-> IF r.calls = 0 THEN NoMessage
                   ELSE [kind |-> "request", task |-> step.description,
                         context |-> context, category |-> step.category]]

\* a progress update that surfaces the last pending step of the list
SlackProgressLastPending(slack, completed_steps, pending_steps, outcome) ==
  LET r == SlackPost(slack, outcome)
  IN  [ret |-> r.ret, exc |-> r.exc, calls |-> r.calls,
       message |-> IF r.calls = 0 THEN NoMessage
                   ELSE [kind |-> "progress",
                         completed |-> Len(completed_steps),
                         total |-> Len(completed_steps) + Len(pending_steps),
                         percentage |-> progress_percentage(Len(completed_steps),
                                          Len(completed_steps) + Len(pending_steps)),
                         has_next |-> pending_steps # <<>>,
                         next_task |-> IF pending_steps # <<>>
                                       THEN pending_steps[Len(pending_steps)].description
                                       ELSE <<>>,
                         next_id |-> IF pending_steps # <<>>
                                     THEN pending_steps[Len(pending_steps)].id ELSE <<>>]]

\* SlackIntegration.send_progress_update: the counts, the percentage, the next
\* task (description and id of pending_steps[0]) when a step is pending, posted
\* once
slack_send_progress_update(slack, completed_steps, pending_steps, outcome) ==
  LET r == SlackPost(slack, outcome)
  IN  [ret |-> r.ret, exc |-> r.exc, calls |-> r.calls,
       message |-> IF r.calls = 0 THEN NoMessage
                   ELSE [kind |-> "progress",
                         completed |-> Len(completed_steps),
                         total |-> Len(completed_steps) + Len(pending_steps),
                         percentage |-> progress_percentage(Len(completed_steps),
                                          Len(completed_steps) + Len(pending_steps)),
                         has_next |-> pending_steps # <<>>,
                         next_task |-> IF pending_steps # <<>>
                                       THEN pending_steps[1].description ELSE <<>>,
                         next_id |-> IF pending_steps # <<>>
                                     THEN pending_steps[1].id ELSE <<>>]]

\* SlackIntegration.send_validation_result
slack_send_validation_result(slack, step, is_valid, outcome) ==
  LET r == SlackPost(slack, outcome)
  IN  [ret |-> r.ret, exc |-> r.exc, calls |-> r.calls,
       message |-> IF r.calls = 0 THEN NoMessage
                   ELSE [kind |-> "validation", task |-> step.description,
                         valid |-> is_valid]]

\* SlackIntegration.update_message: no client -> False; else one chat_update
\* inside try / except SlackApiError
update_message(slack, outcome) ==
  IF ~slack.client THEN [ret |-> "False", exc |-> NoExc, calls |-> 0]
  ELSE CASE outcome = "ok" -> [ret |-> "True", exc |-> NoExc, calls |-> 1]
         [] outcome = "api_error" -> [ret |-> "False", exc |-> NoExc, calls |-> 1]
         [] OTHER -> [ret |-> "False", exc |-> "URLError", calls |-> 1]

(* -------------------------- CleanCoderPlanner ------------------------- *)

\* str.capitalize(): first character upper case, the rest lower case
UpperChar(c) ==
  IF \E i \in 1..26 : LowerLetters[i] = c
  THEN UpperLetters[CHOOSE i \in 1..26 : LowerLetters[i] = c]
  ELSE c
Capitalize(s) ==
  SeqOf([i \in 1..Len(s) |-> IF i = 1 THEN UpperChar(s[i]) ELSE LowerChar(s[i])])

\* a numbering of the steps that starts at one
NewStepOneBased(raw, id, order) ==
  [id |-> id, description |-> raw.description, completed |-> raw.completed,
   source |-> raw.source, category |-> raw.category, order |-> order + 1,
   completion_method |-> Absent, relevant_file |-> NoFile,
   requested |-> FALSE, validated |-> FALSE, completed_at |-> FALSE]

\* a step dictionary as analyze_requirements leaves it; the keys the later
\* operations add are Absent / NoFile / FALSE until they are set:
\*   requested     slack_message_ts and requested_at
\*   validated     validation_message_ts and validated_at
\*   completed_at  completed_at
NewStep(raw, id, order) ==
  [id |-> id, description |-> raw.description, completed |-> raw.completed,
   source |-> raw.source, category |-> raw.category, order |-> order,
   completion_method |-> Absent, relevant_file |-> NoFile,
   requested |-> FALSE, validated |-> FALSE, completed_at |-> FALSE]

\* step.get("category", "general")
CategoryOrGeneral(step) ==
  IF step.category = NoCategory THEN CatGeneral ELSE step.category

CompletedSteps(steps) == SelectSeq(steps, LAMBDA s : s.completed)
PendingSteps(steps) == SelectSeq(steps, LAMBDA s : ~s.completed)

\* the fields of one call: the planner's attributes (implementation_steps,
\* current_plan_file, last_update_time), the output folder (files, by the
\* timestamp in the file name), the source of fresh ids (gen) and what the call
\* did: the events in order (ev), the exception that left it (exc), what it
\* returned (ret), the step it selected (sel) and the context it built (ctx)
NoTime == -1
NoSel == <<>>
NoContext == [category |-> NoCategory, listed |-> <<>>, more |-> 0]

\* CleanCoderPlanner.analyze_requirements: a new list, fresh ids, order = index
\* (raw is what generate_implementation_steps returned)
analyze_requirements(m, raw) ==
      [m EXCEPT !.implementation_steps =
                   SeqOf([i \in 1..Len(raw) |-> NewStep(raw[i], <<m.gen, i>>, i - 1)]),
                !.gen = IF raw = <<>> THEN @ ELSE @ + 1,
                !.ev = Append(@, "extract"),
                !.ret = "steps"]

\* the categories of the steps in order of first appearance (dict insertion order)
RECURSIVE CategoriesInOrder(_, _)
CategoriesInOrder(steps, seen) ==
  IF steps = <<>> THEN seen
  ELSE LET c == CategoryOrGeneral(Head(steps))
       IN  CategoriesInOrder(Tail(steps),
                             IF c \in Range(seen) THEN seen ELSE Append(seen, c))

\* sorted(steps, key=order): a stable insertion sort
RECURSIVE InsertByOrder(_, _)
InsertByOrder(sorted, s) ==
  IF sorted = <<>> THEN <<s>>
  ELSE IF sorted[Len(sorted)].order <= s.order THEN Append(sorted, s)
  ELSE Append(InsertByOrder(SubSeq(sorted, 1, Len(sorted) - 1), s), sorted[Len(sorted)])
RECURSIVE SortByOrder(_)
SortByOrder(steps) ==
  IF steps = <<>> THEN <<>>
  ELSE InsertByOrder(SortByOrder(SubSeq(steps, 1, Len(steps) - 1)), steps[Len(steps)])

DigitChars == <<"0","1","2","3","4","5","6","7","8","9">>
\* datetime.now().strftime(...): the clock as text (one digit of seconds)
TimeText(now) == <<DigitChars[(now % 10) + 1]>>

TextPlanHeader ==
  <<"#"," ","I","m","p","l","e","m","e","n","t","a","t","i","o","n"," ","P","l","a","n",NL,NL>>
TextGenerated == <<"G","e","n","e","r","a","t","e","d",":"," ">>
TextImplementation == <<" ","I","m","p","l","e","m","e","n","t","a","t","i","o","n",NL,NL>>

\* the text save_implementation_plan writes (lines 87-104)
RenderPlan(steps, now) ==
  LET cats == CategoriesInOrder(steps, <<>>)
      line(s) == (IF s.completed THEN <<"[","x","]">> ELSE <<"["," ","]">>)
                   \o <<" ">> \o s.description \o <<NL>>
      section(c) ==
        LET mine == SortByOrder(SelectSeq(steps, LAMBDA s : CategoryOrGeneral(s) = c))
        IN  <<"#","#"," ">> \o Capitalize(c) \o TextImplementation
              \o Flatten(SeqOf([i \in 1..Len(mine) |-> line(mine[i])])) \o <<NL>>
  IN  TextPlanHeader \o TextGenerated \o TimeText(now) \o <<NL, NL>>
        \o Flatten(SeqOf([i \in 1..Len(cats) |-> section(cats[i])]))

\* CleanCoderPlanner.save_implementation_plan: open(output_file, 'w') on the
\* file named by the timestamp
save_implementation_plan(m, now) ==
  [m EXCEPT !.files = [@ EXCEPT ![now] = RenderPlan(m.implementation_steps, now)],
            !.current_plan_file = now,
            !.ev = Append(@, "save"),
            !.ret = "path"]

\* the planner after the analyzer returned or raised r (line 120)
Analyzed(m, r) ==
  [m EXCEPT !.implementation_steps = r.steps, !.ev = Append(@, "analyze")]

\* lines 123-131 of update_implementation_progress once the analysis is done
Updated(m1, exc, now) ==
  IF exc # NoExc THEN [m1 EXCEPT !.exc = exc]
  ELSE [save_implementation_plan(m1, now) EXCEPT !.ret = "pair"]

UpdatedBy(m, r, now) == Updated(Analyzed(m, r), r.exc, now)

\* CleanCoderPlanner.update_implementation_progress
update_implementation_progress(m, repo, git, order, now) ==
  UpdatedBy(m, analyze_implementation_progress(m.implementation_steps, repo, git, order), now)

\* CleanCoderPlanner._get_context_for_step: the context, or TypeError from
\* set(relevant_files)[:5] when a completed step of the category has a relevant file
_get_context_for_step(steps, step) ==
  LET category == CategoryOrGeneral(step)
      related_steps == SelectSeq(steps, LAMBDA s : s.category = category /\ s.id # step.id)
      completed_related_steps == SelectSeq(related_steps, LAMBDA s : s.completed)
      relevant_files == SelectSeq(completed_related_steps, LAMBDA s : s.relevant_file # NoFile)
      n == Len(completed_related_steps)
  IN  IF relevant_files # <<>>
      THEN [exc |-> "TypeError", context |-> NoContext]
      ELSE [exc |-> NoExc,
            context |-> [category |-> category,
                         listed |-> SeqOf([i \in 1..(IF n > 3 THEN 3 ELSE n) |->
                                       completed_related_steps[i].description]),
                         more |-> IF n > 3 THEN n - 3 ELSE 0]]

\* a selection by position: the first pending step of the list
FirstPending(pending_steps) == pending_steps[1]

\* min(pending_steps, key=order): the first step of the least order
MinByOrder(pending_steps) ==
  pending_steps[CHOOSE i \in 1..Len(pending_steps) :
                  /\ \A j \in 1..Len(pending_steps) : pending_steps[i].order <= pending_steps[j].order
                  /\ \A j \in 1..(i - 1) : pending_steps[j].order > pending_steps[i].order]

\* the index in the list of the step object with this id
IndexOfId(steps, id) == CHOOSE i \in 1..Len(steps) : steps[i].id = id

\* the planner after a sender was called: the event and the message it posted
Posted(m, event, s) ==
  [m EXCEPT !.ev = Append(@, event),
            !.posts = IF s.calls = 1 THEN Append(@, s.message) ELSE @]

\* lines 157-161: what the answer s of the sender leaves of the planner m2
Requested(m2, i, s) ==
  IF s.exc # NoExc THEN [m2 EXCEPT !.exc = s.exc]
  ELSE IF s.ret # None
  THEN [m2 EXCEPT !.implementation_steps[i].requested = TRUE, !.ret = "step"]
  ELSE [m2 EXCEPT !.ret = "step"]

RequestSent(m1, i, s) == Requested(Posted(m1, "send_request", s), i, s)

\* lines 151-155: the context c of the selected step, then the sender
RequestWith(m, next_step, c, slack, outcome) ==
  IF c.exc # NoExc
  THEN [m EXCEPT !.sel = next_step.id, !.ctx = c.context, !.exc = c.exc]
  ELSE RequestSent([m EXCEPT !.sel = next_step.id, !.ctx = c.context],
                   IndexOfId(m.implementation_steps, next_step.id),
                   slack_send_implementation_request(slack, next_step, c.context, outcome))

RequestStep(m, next_step, slack, outcome) ==
  RequestWith(m, next_step, _get_context_for_step(m.implementation_steps, next_step),
              slack, outcome)

\* CleanCoderPlanner.send_next_implementation_request
send_next_implementation_request(m, slack, outcome) ==
  IF PendingSteps(m.implementation_steps) = <<>> THEN [m EXCEPT !.ret = None]
  ELSE RequestStep(m, MinByOrder(PendingSteps(m.implementation_steps)), slack, outcome)

\* the feedback text validate_implementation builds: what it says was found,
\* and the file it names
NoFeedback == [found |-> "none", file |-> NoFile]

\* lines 229-234: the feedback for a completed step
FeedbackOf(u) ==
  CASE u.completion_method = "commit_message" ->
         [found |-> "commit_messages", file |-> NoFile]
    [] u.completion_method = "file_content" ->
         [found |-> "file", file |-> u.relevant_file]
    [] OTHER -> [found |-> "validated", file |-> NoFile]

\* lines 228-238: what the analysed step u leaves of the planner m1
ValidatedStep(m1, exc, u) ==
  IF exc # NoExc THEN [m1 EXCEPT !.exc = exc]
  ELSE IF u.completed
  THEN [m1 EXCEPT !.ret = "True", !.feedback = FeedbackOf(u)]
  ELSE [m1 EXCEPT !.ret = "False", !.feedback = [found |-> "not_found", file |-> NoFile]]

ValidatedU(m, i, exc, u) ==
  ValidatedStep([m EXCEPT !.implementation_steps[i] = u, !.ev = Append(@, "analyze"),
                          !.sel = u.id], exc, u)

ValidatedBy(m, i, r) == ValidatedU(m, i, r.exc, r.steps[1])

\* a validation that runs the analyzer on the whole list of the planner
ValidateWholeList(m, i, repo, git, order) ==
  LET r == analyze_implementation_progress(m.implementation_steps, repo, git, order)
  IN  ValidatedU([m EXCEPT !.implementation_steps = r.steps], i, r.exc, r.steps[i])

\* CleanCoderPlanner.validate_implementation on the step at index i of the list
\* (the analyzer changes that dictionary in place)
validate_implementation(m, i, repo, git, order) ==
  ValidatedBy(m, i, analyze_implementation_progress(<<m.implementation_steps[i]>>,
                                                     repo, git, order))

\* lines 255-263: what the answer s of the sender leaves of the planner m1
ValidationMarked(m1, i, is_valid, s) ==
  IF s.exc # NoExc THEN [m1 EXCEPT !.exc = s.exc]
  ELSE IF s.ret # None
  THEN [m1 EXCEPT !.implementation_steps[i] =
                     [@ EXCEPT !.validated = TRUE,
                               !.completed = IF is_valid THEN TRUE ELSE @,
                               !.completed_at = IF is_valid THEN TRUE ELSE @],
                  !.ret = s.ret]
  ELSE [m1 EXCEPT !.ret = s.ret]

ValidationSent(m, i, is_valid, s) ==
  ValidationMarked([Posted(m, "send_validation", s) EXCEPT
                      !.sel = m.implementation_steps[i].id], i, is_valid, s)

\* CleanCoderPlanner.send_validation_result on the step at index i of the list
send_validation_result(m, i, is_valid, slack, outcome) ==
  ValidationSent(m, i, is_valid,
                 slack_send_validation_result(slack, m.implementation_steps[i],
                                              is_valid, outcome))

\* lines 279-282: what the answer s of the sender leaves of the planner m1
ProgressMarked(m1, s, now) ==
  IF s.exc # NoExc THEN [m1 EXCEPT !.exc = s.exc]
  ELSE IF s.ret # None
  THEN [m1 EXCEPT !.last_update_time = now, !.ret = s.ret]
  ELSE [m1 EXCEPT !.ret = s.ret]

ProgressSent(m, s, now) == ProgressMarked(Posted(m, "send_progress", s), s, now)

\* CleanCoderPlanner.send_progress_update
send_progress_update(m, slack, outcome, now) ==
  ProgressSent(m, slack_send_progress_update(slack, CompletedSteps(m.implementation_steps),
                                             PendingSteps(m.implementation_steps), outcome),
               now)

\* one statement of a handler: skipped once an exception is in flight; intr = k
\* is a KeyboardInterrupt delivered before statement k
Stmt(m, k, intr, next) ==
  IF m.exc # NoExc THEN m
  ELSE IF intr = k THEN [m EXCEPT !.exc = "KeyboardInterrupt"]
  ELSE next

\* a cycle that analyses the requirements again on every pass
CycleAnalyzeAlways(m, in) ==
  Stmt(m, 1, in.intr, analyze_requirements(m, in.raw))

\* run_planning_cycle, lines 295-296: analyse the requirements if there is no step
CycleAnalyze(m, in) ==
  Stmt(m, 1, in.intr,
       IF m.implementation_steps = <<>> THEN analyze_requirements(m, in.raw) ELSE m)

\* line 299: update the implementation progress
CycleUpdate(m1, in) ==
  Stmt(m1, 2, in.intr,
       update_implementation_progress(m1, in.repo, in.git, in.order, in.now))

\* line 302: send the progress update
CycleProgress(m2, in) ==
  Stmt(m2, 3, in.intr, send_progress_update(m2, in.slack, in.o1, in.now))

\* lines 305-306: send the next request if the update left a pending step
CycleRequest(m3, pending_steps, in) ==
  Stmt(m3, 4, in.intr,
       IF pending_steps # <<>>
       THEN send_next_implementation_request(m3, in.slack, in.o2) ELSE m3)

CycleSend(m2, in) ==
  CycleRequest(CycleProgress(m2, in), PendingSteps(m2.implementation_steps), in)

CycleEnd(m4) == IF m4.exc # NoExc THEN m4 ELSE [m4 EXCEPT !.ret = None]

\* CleanCoderPlanner.run_planning_cycle; in is the environment of the cycle
run_planning_cycle(m, in) ==
  CycleEnd(CycleSend(CycleUpdate(CycleAnalyze(m, in), in), in))

\* a loop without the handler of KeyboardInterrupt: every exception propagates
LoopHandlerPropagates(exc) ==
  IF exc = NoExc THEN "continue" ELSE "raised"

\* the try / except of run_continuous_loop (lines 319-330) on what one cycle or
\* one sleep raised: go on, return normally, or let it propagate
LoopHandler(exc) ==
  CASE exc = NoExc -> "continue"
    [] exc = "KeyboardInterrupt" -> "returned"
    [] OTHER -> "raised"

(* ------------------------------ bounds ------------------------------- *)

MaxCommits == 1
MaxClock == 1
MaxGen == 2
MaxCalls == 2

NoEnv == [SLACK_API_TOKEN |-> None, SLACK_CHANNEL |-> None, AWS_REGION |-> None,
          secret |-> SecretError]

NoLast == [op |-> "none", exc |-> NoExc, out |-> "returned", ev |-> <<>>, ret |-> None,
           sel |-> NoSel, posts |-> <<>>, feedback |-> NoFeedback]

NoCli == [pc |-> "off", command |-> "", status |-> -1, cause |-> "none"]
NoProbe == [fn |-> "none"]

\* CleanCoderPlanner.__init__ (lines 53-56)
NewPlanner ==
  [implementation_steps |-> <<>>, current_plan_file |-> NoTime, last_update_time |-> NoTime]

\* the call record of an operation that starts in the current state
Cur ==
  [implementation_steps |-> planner.implementation_steps,
   current_plan_file |-> planner.current_plan_file,
   last_update_time |-> planner.last_update_time,
   files |-> output_folder, gen |-> uuids,
   ev |-> <<>>, exc |-> NoExc, ret |-> None, sel |-> NoSel, ctx |-> NoContext,
   posts |-> <<>>, feedback |-> NoFeedback]

\* the state a call leaves behind
Leave(m, op, out) ==
  /\ planner' = [implementation_steps |-> m.implementation_steps,
                 current_plan_file |-> m.current_plan_file,
                 last_update_time |-> m.last_update_time]
  /\ output_folder' = m.files
  /\ uuids' = m.gen
  /\ calls' = calls + 1
  /\ last' = [op |-> op, exc |-> m.exc, out |-> out, ev |-> m.ev, ret |-> m.ret,
              sel |-> m.sel, posts |-> m.posts, feedback |-> m.feedback]

\* a call made by the embedding program: it returns or the exception propagates
Outcome(m) == IF m.exc = NoExc THEN "returned" ELSE "raised"

Init ==
  /\ docs_folder \in {Missing, FolderPages, FolderPlan}
  /\ history = <<>>
  /\ clock = 0
  /\ args \in {[channel |-> None, token |-> None], [channel |-> None, token |-> "xoxb-arg"]}
  /\ environ = NoEnv
  /\ slack_integration = SlackInit(args.channel, args.token, environ)
  /\ git_answers \in GitOutcomes
  /\ slack_answers \in (IF slack_integration.client THEN SendOutcomes ELSE {"ok"})
  /\ planner = NewPlanner
  /\ output_folder = [t \in 0..MaxClock |-> <<>>]
  /\ uuids = 0
  /\ loop = "idle"
  /\ last = NoLast
  /\ calls = 0
  /\ cli = NoCli
  /\ probe = NoProbe

(* ----------------------------- environment ---------------------------- *)

\* a commit lands in the lookback window
GitCommit ==
  /\ Len(history) < MaxCommits
  /\ \E c \in CommitPool :
       /\ c \notin Range(history)
       /\ history' = <<c>> \o history
  /\ UNCHANGED <<docs_folder, clock, args, environ, slack_integration, git_answers, slack_answers, planner, output_folder, uuids, loop, last, calls, cli, probe>>

\* a second passes
Tick ==
  /\ clock < MaxClock
  /\ clock' = clock + 1
  /\ UNCHANGED <<docs_folder, history, args, environ, slack_integration, git_answers, slack_answers, planner, output_folder, uuids, loop, last, calls, cli, probe>>

(* ------------------------ calls on the planner ------------------------ *)

world == <<docs_folder, history, clock, args, environ, slack_integration, git_answers, slack_answers>>
CanCall == loop = "idle" /\ calls < MaxCalls

AnalyzeRequirements ==
  /\ CanCall /\ uuids < MaxGen
  /\ \E raw \in ExtractionTable[docs_folder] :
       LET m == analyze_requirements(Cur, raw)
       IN  Leave(m, "analyze_requirements", Outcome(m))
  /\ UNCHANGED <<world, loop, cli, probe>>

SaveImplementationPlan ==
  /\ CanCall
  /\ LET m == save_implementation_plan(Cur, clock)
     IN  Leave(m, "save_implementation_plan", Outcome(m))
  /\ UNCHANGED <<world, loop, cli, probe>>

UpdateImplementationProgress ==
  /\ CanCall
  /\ \E order \in FileOrders(history, git_answers) :
       LET m == update_implementation_progress(Cur, history, git_answers, order, clock)
       IN  Leave(m, "update_implementation_progress", Outcome(m))
  /\ UNCHANGED <<world, loop, cli, probe>>

SendNextImplementationRequest ==
  /\ CanCall
  /\ LET outcome == slack_answers IN
       LET m == send_next_implementation_request(Cur, slack_integration, outcome)
       IN  Leave(m, "send_next_implementation_request", Outcome(m))
  /\ UNCHANGED <<world, loop, cli, probe>>

ValidateImplementation ==
  /\ CanCall
  /\ \E i \in 1..Len(planner.implementation_steps) :
     \E order \in FileOrders(history, git_answers) :
       LET m == validate_implementation(Cur, i, history, git_answers, order)
       IN  Leave(m, "validate_implementation", Outcome(m))
  /\ UNCHANGED <<world, loop, cli, probe>>

SendValidationResult ==
  /\ CanCall
  /\ \E i \in 1..Len(planner.implementation_steps) :
     \E is_valid \in BOOLEAN : LET outcome == slack_answers IN
       LET m == send_validation_result(Cur, i, is_valid, slack_integration, outcome)
       IN  Leave(m, "send_validation_result", Outcome(m))
  /\ UNCHANGED <<world, loop, cli, probe>>

SendProgressUpdate ==
  /\ CanCall
  /\ LET outcome == slack_answers IN
       LET m == send_progress_update(Cur, slack_integration, outcome, clock)
       IN  Leave(m, "send_progress_update", Outcome(m))
  /\ UNCHANGED <<world, loop, cli, probe>>

\* the environments one planning cycle may meet in the current state: what the
\* extraction returns (if it runs), how git answers, the order the changed files
\* are iterated in, how the two sends end, and where the user interrupts
CycleInputs(intrs) ==
  {[raw |-> r, repo |-> history, git |-> git_answers, order |-> o, now |-> clock,
    slack |-> slack_integration, o1 |-> slack_answers, o2 |-> slack_answers, intr |-> k] :
     r \in (IF planner.implementation_steps = <<>> THEN ExtractionTable[docs_folder] ELSE {<<>>}),
     o \in FileOrders(history, git_answers),
     k \in intrs}

\* an extraction draws fresh ids only while the bound on extractions allows it
CanCycle == planner.implementation_steps # <<>> \/ uuids < MaxGen

RunPlanningCycle ==
  /\ CanCall /\ CanCycle
  /\ \E in \in CycleInputs({0}) :
       LET m == run_planning_cycle(Cur, in)
       IN  Leave(m, "run_planning_cycle", Outcome(m))
  /\ UNCHANGED <<world, loop, cli, probe>>

(* ------------------------- run_continuous_loop ------------------------ *)

\* the embedding program calls run_continuous_loop
LoopStart ==
  /\ loop = "idle" /\ cli.pc = "off" /\ calls < MaxCalls
  /\ loop' = "cycle"
  /\ last' = [NoLast EXCEPT !.op = "run_continuous_loop", !.out = "continue"]
  /\ UNCHANGED <<world, planner, output_folder, uuids, calls, cli, probe>>

\* one pass of the while loop up to the sleep: run_planning_cycle, during which
\* the user may interrupt
LoopCycle ==
  /\ loop = "cycle" /\ CanCycle /\ calls < MaxCalls
  /\ \E in \in CycleInputs(0..4) :
       LET m == run_planning_cycle(Cur, in)
           out == LoopHandler(m.exc)
       IN  /\ Leave(m, "loop_cycle", out)
           /\ loop' = IF out = "continue" THEN "sleep" ELSE "idle"
  /\ UNCHANGED <<world, cli, probe>>

\* time.sleep(interval_minutes * 60), during which the user may interrupt
LoopSleep ==
  /\ loop = "sleep"
  /\ \E interrupted \in BOOLEAN :
       LET exc == IF interrupted THEN "KeyboardInterrupt" ELSE NoExc
           out == LoopHandler(exc)
       IN  /\ last' = [NoLast EXCEPT !.op = "loop_sleep", !.exc = exc, !.out = out]
           /\ loop' = IF out = "continue" THEN "cycle" ELSE "idle"
  /\ UNCHANGED <<world, planner, output_folder, uuids, calls, cli, probe>>

Next ==
  \/ GitCommit
  \/ Tick
  \/ AnalyzeRequirements
  \/ SaveImplementationPlan
  \/ UpdateImplementationProgress
  \/ SendNextImplementationRequest
  \/ ValidateImplementation
  \/ SendValidationResult
  \/ SendProgressUpdate
  \/ RunPlanningCycle
  \/ LoopStart
  \/ LoopCycle
  \/ LoopSleep

Spec == Init /\ [][Next]_vars

(* ------------------- the keyword match as a function ------------------ *)

MaxKeywords == 3

\* the texts and the keywords the match is applied to
MatchTexts == {<<>>, MsgLogin, MsgWip, MsgAssets, ContentReadme, ContentProfile}
KeywordPool ==
  {<<"l","o","g","i","n">>, <<"p","a","g","e">>, <<"u","s","e","r">>,
   <<"p","r","o","f","i","l","e">>, <<"f","l","o","w">>}
KeywordSets == {k \in SUBSET KeywordPool : Cardinality(k) <= MaxKeywords}

InitMatch ==
  /\ probe = NoProbe
  /\ docs_folder = Missing /\ history = <<>> /\ clock = 0
  /\ args = [channel |-> None, token |-> None] /\ environ = NoEnv
  /\ slack_integration = SlackInit(args.channel, args.token, environ)
  /\ git_answers = "ok" /\ slack_answers = "ok"
  /\ planner = NewPlanner /\ output_folder = [t \in 0..MaxClock |-> <<>>]
  /\ uuids = 0 /\ loop = "idle" /\ last = NoLast /\ calls = 0 /\ cli = NoCli

\* the analyzer asks whether a text (a commit message, a file's content)
\* satisfies a keyword set: _has_enough_keywords(text.lower(), keywords)
HasEnoughKeywords ==
  /\ \E text \in MatchTexts : \E keywords \in KeywordSets :
       probe' = [fn |-> "_has_enough_keywords", text |-> text, keywords |-> keywords,
                 result |-> _has_enough_keywords(Lower(text), keywords)]
  /\ UNCHANGED <<world, planner, output_folder, uuids, loop, last, calls, cli>>

NextMatch == HasEnoughKeywords

SpecMatch == InitMatch /\ [][NextMatch]_vars

(* --------------------- the sender as a component ---------------------- *)

\* the values a token argument, the environment and the secret store may hold
TokenArgs == {None, "", "xoxb-arg"}
Environments ==
  {[SLACK_API_TOKEN |-> t, SLACK_CHANNEL |-> None, AWS_REGION |-> r, secret |-> s] :
     t \in {None, "", "xoxb-env"}, r \in {None, "us-east-1"},
     s \in {SecretError, None, "xoxb-secret"}}

\* a step and a context to send
SampleStep ==
  NewStep([description |-> PrefixImplement \o MsgLogin, completed |-> FALSE,
           source |-> "generated", category |-> CatFunctional], <<1, 1>>, 0)

InitSlack ==
  /\ args \in {[channel |-> None, token |-> t] : t \in TokenArgs}
  /\ environ \in Environments
  /\ slack_integration = SlackInit(args.channel, args.token, environ)
  /\ slack_answers \in SendOutcomes
  /\ docs_folder = Missing /\ history = <<>> /\ clock = 0 /\ git_answers = "ok"
  /\ planner = NewPlanner /\ output_folder = [t \in 0..MaxClock |-> <<>>]
  /\ uuids = 0 /\ loop = "idle" /\ last = NoLast /\ calls = 0 /\ cli = NoCli
  /\ probe = NoProbe

\* what a call of the sender leaves: the calls it made to the messaging
\* endpoint (ev), what it returned (ret) and what it raised (exc)
SenderLeaves(op, method, r) ==
  [op |-> op, exc |-> r.exc,
   out |-> IF r.exc = NoExc THEN "returned" ELSE "raised",
   ev |-> IF r.calls = 1 THEN <<method>> ELSE <<>>,
   ret |-> r.ret, sel |-> NoSel,
   posts |-> IF method = "chat_postMessage" /\ r.calls = 1 THEN <<r.message>> ELSE <<>>,
   feedback |-> NoFeedback]

SlackSendImplementationRequest ==
  /\ last' = SenderLeaves("slack.send_implementation_request", "chat_postMessage",
                slack_send_implementation_request(slack_integration, SampleStep,
                                                  NoContext, slack_answers))
  /\ UNCHANGED <<world, planner, output_folder, uuids, loop, calls, cli, probe>>

SlackSendProgressUpdate ==
  /\ \E done \in BOOLEAN :
       last' = SenderLeaves("slack.send_progress_update", "chat_postMessage",
                  slack_send_progress_update(slack_integration,
                     IF done THEN <<SampleStep>> ELSE <<>>,
                     IF done THEN <<>> ELSE <<SampleStep>>, slack_answers))
  /\ UNCHANGED <<world, planner, output_folder, uuids, loop, calls, cli, probe>>

SlackSendValidationResult ==
  /\ \E is_valid \in BOOLEAN :
       last' = SenderLeaves("slack.send_validation_result", "chat_postMessage",
                  slack_send_validation_result(slack_integration, SampleStep, is_valid,
                                               slack_answers))
  /\ UNCHANGED <<world, planner, output_folder, uuids, loop, calls, cli, probe>>

SlackUpdateMessage ==
  /\ last' = SenderLeaves("slack.update_message", "chat_update",
                update_message(slack_integration, slack_answers))
  /\ UNCHANGED <<world, planner, output_folder, uuids, loop, calls, cli, probe>>

NextSlack ==
  \/ SlackSendImplementationRequest
  \/ SlackSendProgressUpdate
  \/ SlackSendValidationResult
  \/ SlackUpdateMessage

SpecSlack == InitSlack /\ [][NextSlack]_vars

(* --------------------------- the command line ------------------------- *)

\* the commands of the argument parser; "" is no command
CliCommands ==
  {"", "analyze", "update", "send_request", "send_progress", "run_once", "run_loop"}

\* an interpreter that reports the interruption of the loop as a failure
cli_exit_status_interrupt_fails(cause) ==
  IF cause = "completed" THEN 0 ELSE 1

\* the exit status of main (cli.py lines 58-61 and 111-119): 1 when no command
\* is given, 0 when the command completes, 0 when the loop is interrupted (the
\* loop returns normally, or main's handler calls sys.exit(0)), and the
\* interpreter's 1 when an exception leaves main
cli_exit_status(cause) ==
  CASE cause = "no_command" -> 1
    [] cause = "completed" -> 0
    [] cause = "interrupted" -> 0
    [] OTHER -> 1

InitCli ==
  /\ docs_folder \in {Missing, FolderPages, FolderPlan}
  /\ history \in {<<>>} \cup {<<c>> : c \in CommitPool}
  /\ clock = 0
  /\ environ \in {NoEnv, [NoEnv EXCEPT !.SLACK_API_TOKEN = "xoxb-env"]}
  /\ args = [channel |-> None, token |-> environ.SLACK_API_TOKEN]
  /\ slack_integration = SlackInit(args.channel, args.token, environ)
  /\ git_answers \in GitOutcomes
  /\ slack_answers \in (IF slack_integration.client THEN SendOutcomes ELSE {"ok"})
  /\ planner = NewPlanner /\ output_folder = [t \in 0..MaxClock |-> <<>>]
  /\ uuids = 0 /\ loop = "idle" /\ last = NoLast /\ calls = 0
  /\ cli \in {[pc |-> "start", command |-> c, status |-> -1, cause |-> "none"] :
                c \in CliCommands}
  /\ probe = NoProbe

\* main leaves: the process exits
CliExit(cause) ==
  cli' = [cli EXCEPT !.pc = "exited", !.cause = cause, !.status = cli_exit_status(cause)]

\* a command that is a sequence of planner calls has run
CliRan(m, op) ==
  /\ Leave(m, op, Outcome(m))
  /\ CliExit(IF m.exc = NoExc THEN "completed" ELSE "raised")
  /\ UNCHANGED <<world, loop, probe>>

\* if not args.command: sys.exit(1)
CliNoCommand ==
  /\ cli.pc = "start" /\ cli.command = ""
  /\ CliExit("no_command")
  /\ UNCHANGED <<world, planner, output_folder, uuids, loop, last, calls, probe>>

\* analyze: analyze_requirements, save_implementation_plan
CliAnalyze ==
  /\ cli.pc = "start" /\ cli.command = "analyze"
  /\ \E raw \in ExtractionTable[docs_folder] :
       LET m1 == analyze_requirements(Cur, raw)
           m2 == Stmt(m1, 0, 1, save_implementation_plan(m1, clock))
       IN  CliRan(m2, "cli.analyze")

\* update: analyze_requirements (the list is empty), update_implementation_progress
CliUpdate ==
  /\ cli.pc = "start" /\ cli.command = "update"
  /\ \E raw \in ExtractionTable[docs_folder] :
     \E order \in FileOrders(history, git_answers) :
       LET m1 == analyze_requirements(Cur, raw)
           m2 == Stmt(m1, 0, 1, update_implementation_progress(
                                  m1, history, git_answers, order, clock))
       IN  CliRan(m2, "cli.update")

\* send: analyze_requirements and update_implementation_progress (the list is
\* empty), then the request or the progress update
CliSend ==
  /\ cli.pc = "start" /\ cli.command \in {"send_request", "send_progress"}
  /\ \E raw \in ExtractionTable[docs_folder] :
     \E order \in FileOrders(history, git_answers) :
       LET m1 == analyze_requirements(Cur, raw)
           m2 == Stmt(m1, 0, 1, update_implementation_progress(
                                  m1, history, git_answers, order, clock))
           m3 == Stmt(m2, 0, 1,
                   IF cli.command = "send_request"
                   THEN send_next_implementation_request(m2, slack_integration, slack_answers)
                   ELSE send_progress_update(m2, slack_integration, slack_answers, clock))
       IN  CliRan(m3, "cli.send")

\* run --mode once: run_planning_cycle
CliRunOnce ==
  /\ cli.pc = "start" /\ cli.command = "run_once"
  /\ \E in \in CycleInputs({0}) :
       CliRan(run_planning_cycle(Cur, in), "cli.run_once")

\* run --mode loop: run_continuous_loop starts
CliRunLoop ==
  /\ cli.pc = "start" /\ cli.command = "run_loop"
  /\ cli' = [cli EXCEPT !.pc = "loop"]
  /\ loop' = "cycle"
  /\ last' = [NoLast EXCEPT !.op = "run_continuous_loop", !.out = "continue"]
  /\ UNCHANGED <<world, planner, output_folder, uuids, calls, probe>>

\* one pass of the loop inside the command line process; when the loop ends,
\* main ends with it
CliLoopCycle ==
  /\ cli.pc = "loop" /\ loop = "cycle" /\ calls < MaxCalls
  /\ \E in \in CycleInputs(0..4) :
       LET m == run_planning_cycle(Cur, in)
           out == LoopHandler(m.exc)
       IN  /\ Leave(m, "loop_cycle", out)
           /\ loop' = IF out = "continue" THEN "sleep" ELSE "idle"
           /\ IF out = "continue" THEN UNCHANGED cli
              ELSE CliExit(IF out = "returned" THEN "interrupted" ELSE "raised")
  /\ UNCHANGED <<world, probe>>

CliLoopSleep ==
  /\ cli.pc = "loop" /\ loop = "sleep"
  /\ \E interrupted \in BOOLEAN :
       LET exc == IF interrupted THEN "KeyboardInterrupt" ELSE NoExc
           out == LoopHandler(exc)
       IN  /\ last' = [NoLast EXCEPT !.op = "loop_sleep", !.exc = exc, !.out = out]
           /\ loop' = IF out = "continue" THEN "cycle" ELSE "idle"
           /\ IF out = "continue" THEN UNCHANGED cli
              ELSE CliExit(IF out = "returned" THEN "interrupted" ELSE "raised")
  /\ UNCHANGED <<world, planner, output_folder, uuids, calls, probe>>

NextCli ==
  \/ CliNoCommand
  \/ CliAnalyze
  \/ CliUpdate
  \/ CliSend
  \/ CliRunOnce
  \/ CliRunLoop
  \/ CliLoopCycle
  \/ CliLoopSleep

SpecCli == InitCli /\ [][NextCli]_vars
(* ------------- the operations applied to inputs of their own ---------- *)

MaxCompleted == 29
MaxPending == 21
MaxSteps == 3

\* the histories the analyzer is applied to: up to two distinct commits
UnitHistories ==
  {<<>>} \cup {<<c>> : c \in CommitPool \cup ScenarioCommits}
         \cup {<<c, d>> : c \in ScenarioCommits, d \in CommitPool}

\* the steps the analyzer is applied to: every step an extraction may give
UnitSteps ==
  UNION {{NewStep(raw[i], <<0, i>>, i - 1) : i \in 1..Len(raw)} :
           raw \in UNION Range(ExtractionTable)}

\* the step lists the selection is applied to: three steps whose order values
\* and completion flags are independent of their position in the list
UnitLists ==
  {SeqOf([i \in 1..MaxSteps |->
      [NewStep([description |-> MsgWip, completed |-> done[i], source |-> "generated",
                category |-> CatFunctional], <<0, i>>, orders[i])
       EXCEPT !.completion_method = IF done[i] THEN "commit_message" ELSE Absent]]) :
     orders \in [1..MaxSteps -> 1..MaxSteps], done \in [1..MaxSteps -> BOOLEAN]}

\* a configured Slack integration
UnitSlack == SlackInit(None, "xoxb-arg", NoEnv)

InitUnit == InitMatch

\* each behaviour applies one operation to one input
Fresh == probe = NoProbe

\* GitHubAnalyzer.analyze_implementation_progress on a list of one step
AnalyzeOne ==
  /\ Fresh
  /\ \E step \in UnitSteps : \E repo \in UnitHistories : \E git \in GitOutcomes :
     \E order \in FileOrders(repo, git) :
       probe' = [fn |-> "analyze_implementation_progress", step |-> step,
                 keywords |-> KeywordTable[step.description],
                 repo |-> repo, git |-> git, order |-> order,
                 result |-> analyze_implementation_progress(<<step>>, repo, git, order)]
  /\ UNCHANGED <<world, planner, output_folder, uuids, loop, last, calls, cli>>

\* RequirementsAnalyzer.generate_implementation_steps on a documentation folder
GenerateImplementationSteps ==
  /\ Fresh
  /\ \E folder \in DocFolders : \E steps \in ExtractionTable[folder] :
       probe' = [fn |-> "generate_implementation_steps", folder |-> folder,
                 requirements |-> extract_requirements(load_docs(folder)),
                 steps |-> steps]
  /\ UNCHANGED <<world, planner, output_folder, uuids, loop, last, calls, cli>>

\* what a call of send_next_implementation_request on a step list leaves
Selected(steps, m) ==
  [fn |-> "send_next_implementation_request", steps |-> steps,
   sel |-> m.sel, ret |-> m.ret, exc |-> m.exc, posts |-> m.posts]

\* CleanCoderPlanner.send_next_implementation_request on a step list
SelectNext ==
  /\ Fresh
  /\ \E steps \in UnitLists : \E outcome \in SendOutcomes :
       probe' = Selected(steps,
                  send_next_implementation_request(
                    [Cur EXCEPT !.implementation_steps = steps], UnitSlack, outcome))
  /\ UNCHANGED <<world, planner, output_folder, uuids, loop, last, calls, cli>>

\* SlackIntegration.send_progress_update on lists of given lengths
ProgressUpdate ==
  /\ Fresh
  /\ \E completed \in 0..MaxCompleted : \E pending \in 0..MaxPending :
       probe' = [fn |-> "slack.send_progress_update",
                 completed |-> completed, pending |-> pending,
                 sent |-> slack_send_progress_update(UnitSlack,
                            [i \in 1..completed |-> SampleStep] \o <<>>,
                            [i \in 1..pending |-> SampleStep] \o <<>>, "ok")]
  /\ UNCHANGED <<world, planner, output_folder, uuids, loop, last, calls, cli>>

NextUnit ==
  \/ AnalyzeOne
  \/ GenerateImplementationSteps
  \/ SelectNext
  \/ ProgressUpdate

SpecUnit == InitUnit /\ [][NextUnit]_vars


(* ------------------------------ properties ---------------------------- *)

\* C1: update_implementation_progress, and the analyzer it calls, never turn a
\* completed step back to pending: over every call that runs the analyzer on an
\* existing list (update_implementation_progress, validate_implementation, a
\* planning cycle that does not extract), the list keeps its steps and every
\* step completed before the call is completed after it.
C1_UpdateNeverDowngrades ==
  [][(/\ last'.op \in {"update_implementation_progress", "validate_implementation",
                       "run_planning_cycle", "loop_cycle"}
      /\ calls' = calls + 1
      /\ planner.implementation_steps # <<>>)
     => /\ Len(planner'.implementation_steps) = Len(planner.implementation_steps)
        /\ \A i \in 1..Len(planner.implementation_steps) :
             /\ planner'.implementation_steps[i].id = planner.implementation_steps[i].id
             /\ planner.implementation_steps[i].completed
                  => planner'.implementation_steps[i].completed]_vars

\* C1 witness: update_implementation_progress has returned on a list holding a
\* step that was completed before the analysis (the analyzer did not complete
\* it: the step has no completion_method) and another the analysis left pending.
C1_Witness ==
  /\ last.op = "update_implementation_progress" /\ last.exc = NoExc
  /\ \E i, j \in 1..Len(planner.implementation_steps) :
       /\ planner.implementation_steps[i].completed
       /\ planner.implementation_steps[i].completion_method = Absent
       /\ ~planner.implementation_steps[j].completed

\* C2: after any sequence of planner operations a step that has once been
\* completed is never pending again: over every transition, a step completed
\* before it is, if the list still holds a step of that description, completed
\* after it.
C2_CompletedNeverPendingAgain ==
  [][\A i \in 1..Len(planner.implementation_steps) :
       planner.implementation_steps[i].completed
         => \A j \in 1..Len(planner'.implementation_steps) :
              planner'.implementation_steps[j].description
                  = planner.implementation_steps[i].description
                => planner'.implementation_steps[j].completed]_vars

\* C3: a step's order is its position in generation order (the first step has
\* order 0), and no operation changes the order of a step the list already
\* held: over every transition, each step of the new list has the order of its
\* position, and a step that was in the list before has the order it had.
C3_OrderAssignedOnce ==
  [][\A j \in 1..Len(planner'.implementation_steps) :
       /\ planner'.implementation_steps[j].order = j - 1
       /\ \A i \in 1..Len(planner.implementation_steps) :
            planner.implementation_steps[i].id = planner'.implementation_steps[j].id
              => planner.implementation_steps[i].order
                   = planner'.implementation_steps[j].order]_vars

\* C3 witness: the second pass of the continuous loop has run on the steps the
\* first pass extracted.
C3_Witness ==
  /\ last.op = "loop_cycle" /\ calls = 2
  /\ Len(planner.implementation_steps) >= 2
  /\ "extract" \notin Range(last.ev)
  /\ "analyze" \in Range(last.ev)

\* C4: one planning cycle, with git and the messaging endpoint answering, every
\* changed file readable and no interruption, performs extraction (only on an empty list), analysis, save,
\* progress update, request in this order; the request is sent if and only if a
\* step is pending after the analysis, and nothing is sent before the save.
C4_CycleOrderAndRequest ==
  (/\ last.op \in {"run_planning_cycle", "loop_cycle"}
   /\ git_answers = "ok" /\ slack_answers = "ok"
   /\ last.exc \notin {"KeyboardInterrupt", "UnicodeDecodeError"})
  => LET full == <<"extract", "analyze", "save", "send_progress", "send_request">>
         pending == \E i \in 1..Len(planner.implementation_steps) :
                       ~planner.implementation_steps[i].completed
     IN  /\ \E keep \in SUBSET (1..5) :
              last.ev = SelectSeq(full, LAMBDA e : \E k \in keep : full[k] = e)
         /\ {"analyze", "save", "send_progress"} \subseteq Range(last.ev)
         /\ ("send_request" \in Range(last.ev)) <=> pending

\* C5: the continuous loop goes from a cycle that ended without exception to
\* the sleep and from a sleep that ended without exception to the next cycle;
\* it ends only on an exception: a KeyboardInterrupt makes run_continuous_loop
\* return normally, any other exception propagates to the caller.
C5_LoopEndsOnlyOnInterruptOrError ==
  [][(loop # "idle" /\ cli.pc = "off")
     => /\ (loop' # loop) => last'.op = (IF loop = "cycle" THEN "loop_cycle" ELSE "loop_sleep")
        /\ (loop' # loop /\ last'.exc = NoExc)
             => loop' = (IF loop = "cycle" THEN "sleep" ELSE "cycle")
        /\ (loop' = "idle")
             => /\ last'.exc # NoExc
                /\ last'.out = (IF last'.exc = "KeyboardInterrupt"
                                THEN "returned" ELSE "raised")
        /\ (loop' # loop /\ last'.exc # NoExc) => loop' = "idle"]_vars

\* C5 witness: the loop ran a cycle, slept, and the user interrupted the sleep:
\* run_continuous_loop has returned normally.
C5_Witness ==
  /\ loop = "idle" /\ last.op = "loop_sleep"
  /\ last.exc = "KeyboardInterrupt" /\ last.out = "returned"
  /\ calls >= 1

\* C6 as stated: the command line exits with status 0 when a command completes
\* and with a non-zero status when no command is given or when the loop is
\* ended by an interruption.
C6_InterruptExitsNonZero ==
  cli.pc = "exited"
  => /\ cli.cause = "completed" => cli.status = 0
     /\ cli.cause = "no_command" => cli.status # 0
     /\ cli.cause = "interrupted" => cli.status # 0

\* C6 amended: the command line exits with status 0 when a command completes
\* and when the loop is ended by an interruption, and with a non-zero status
\* when no command is given.
C6_InterruptExitsZero ==
  cli.pc = "exited"
  => /\ cli.cause = "completed" => cli.status = 0
     /\ cli.cause = "no_command" => cli.status # 0
     /\ cli.cause = "interrupted" => cli.status = 0

\* C6 witness: the loop of the command line was interrupted after a cycle and
\* the process has exited.
C6_Witness ==
  /\ cli.pc = "exited" /\ cli.command = "run_loop" /\ cli.cause = "interrupted"
  /\ calls >= 1

\* C7: whatever goes wrong when git is invoked, no exception of the invocation
\* leaves an operation that runs the analyzer.
C7_GitErrorsNeverPropagate ==
  (/\ last.op \in {"update_implementation_progress", "validate_implementation",
                   "run_planning_cycle", "loop_cycle"}
   /\ git_answers # "ok")
  => last.exc \notin {"FileNotFoundError", "CalledProcessError"}

\* C8: a sender never raises: whatever happens to the call of the messaging
\* endpoint, the three sends return a ts or None and update_message returns
\* True or False.
C8_SenderNeverRaises ==
  last.op \in {"slack.send_implementation_request", "slack.send_progress_update",
               "slack.send_validation_result", "slack.update_message"}
  => /\ last.exc = NoExc /\ last.out = "returned"
     /\ slack_answers # "ok"
          => last.ret = (IF last.op = "slack.update_message" THEN "False" ELSE None)

\* C9: the sender's token is the first non-empty of the constructor argument,
\* the environment variable and the secret store's value (the store is asked
\* only where a region is configured, and a failing lookup gives nothing); when
\* none gives a value the sender has no client: every send returns None
\* (update_message False), calls the endpoint never and raises nothing.
C9_CredentialOrderAndNoOp ==
  LET stored == IF environ.AWS_REGION # None /\ environ.secret # SecretError
                THEN environ.secret ELSE None
      first == IF ~Falsy(args.token) THEN args.token
               ELSE IF ~Falsy(environ.SLACK_API_TOKEN) THEN environ.SLACK_API_TOKEN
               ELSE stored
  IN  IF ~Falsy(first)
      THEN slack_integration.token = first /\ slack_integration.client
      ELSE /\ ~slack_integration.client
           /\ last.op \in {"slack.send_implementation_request", "slack.send_progress_update",
                           "slack.send_validation_result", "slack.update_message"}
                => /\ last.ev = <<>> /\ last.exc = NoExc
                   /\ last.ret = (IF last.op = "slack.update_message" THEN "False" ELSE None)

\* C9 witness: a sender built with an empty argument, no environment variable
\* and a region whose secret has no token was asked to send a request.
C9_Witness ==
  /\ args.token = "" /\ environ.SLACK_API_TOKEN = None
  /\ environ.AWS_REGION # None /\ environ.secret = None
  /\ last.op = "slack.send_implementation_request"

C11_SignatureIsAddLogin ==
  (probe.fn = "analyze_implementation_progress"
     /\ probe.step.description = PrefixImplement \o ReqAddLogin)
  => probe.keywords = {KwAdd, KwLogin}

\* C11 (amended): "implement" and "add" are both stop words, so the keyword
\* signature of the step "Implement Add login" is {login}; a commit message
\* "Implement add login flow" in the lookback window matches it (1 of 1
\* keywords) and the analyzer marks the step completed with completion_method
\* = commit_message.
C11_LoginCommitCompletesStep ==
  (probe.fn = "analyze_implementation_progress"
     /\ probe.step.description = PrefixImplement \o ReqAddLogin)
  => /\ probe.keywords = {KwLogin}
     /\ _has_enough_keywords(Lower(MsgImplement), probe.keywords)
     /\ (\E i \in 1..Len(get_recent_commits(probe.repo, probe.git).value) :
            get_recent_commits(probe.repo, probe.git).value[i].message = MsgImplement)
        => /\ probe.result.exc = NoExc
           /\ probe.result.steps[1].completed
           /\ probe.result.steps[1].completion_method = "commit_message"

C11_Witness ==
  /\ probe.fn = "analyze_implementation_progress"
  /\ probe.step.description = PrefixImplement \o ReqAddLogin
  /\ probe.repo = <<[sha |-> "c4", message |-> MsgImplement, files |-> <<>>]>>
  /\ probe.git = "ok"
  /\ probe.result.steps[1].completion_method = "commit_message"

\* C12: a documentation folder with one file containing
\* "## Features\n- Add login\n- Add logout" yields the functional requirement
\* set exactly {"Add login", "Add logout"} and exactly two generated steps,
\* "Implement Add login" and "Implement Add logout", both with completed = false.
C12_TwoRequirementsTwoSteps ==
  (probe.fn = "generate_implementation_steps" /\ probe.folder = FolderFeatures)
  => /\ probe.requirements[CatFunctional] = {ReqAddLogin, ReqAddLogout}
     /\ Len(probe.steps) = 2
     /\ {probe.steps[i].description : i \in 1..Len(probe.steps)}
          = {PrefixImplement \o ReqAddLogin, PrefixImplement \o ReqAddLogout}
     /\ \A i \in 1..Len(probe.steps) :
          ~probe.steps[i].completed /\ probe.steps[i].source = "generated"

\* C13: send_next_implementation_request selects, among the pending steps, the
\* one with the lowest order value (for pending orders 3, 1, 2 the step with
\* order 1), whatever the position of the steps in the list.
C13_SelectsLowestOrder ==
  (probe.fn = "send_next_implementation_request"
     /\ \E i \in 1..Len(probe.steps) : ~probe.steps[i].completed)
  => \E i \in 1..Len(probe.steps) :
       /\ probe.steps[i].id = probe.sel
       /\ ~probe.steps[i].completed
       /\ \A j \in 1..Len(probe.steps) :
            ~probe.steps[j].completed => probe.steps[i].order <= probe.steps[j].order

C13_Witness ==
  /\ probe.fn = "send_next_implementation_request"
  /\ Len(probe.steps) = 3
  /\ \A i \in 1..3 : ~probe.steps[i].completed
  /\ <<probe.steps[1].order, probe.steps[2].order, probe.steps[3].order>> = <<3, 1, 2>>
  /\ probe.sel = probe.steps[2].id

\* C14 (as stated): with zero pending steps, a progress update reports 100%.
C14_NoPendingReportsAll ==
  \A i \in 1..Len(last.posts) :
    (last.posts[i].kind = "progress" /\ last.posts[i].completed = last.posts[i].total)
    => last.posts[i].percentage = 100

\* C14 (amended): with zero pending steps and at least one step, a progress
\* update is still sent, reports 100% and contains no next-task block; with no
\* step at all it is sent as well and reports 0%; in both cases
\* send_next_implementation_request returns absence (None) without sending
\* anything.
C14_NoPendingProgressAndRequest ==
  /\ \A i \in 1..Len(last.posts) :
       (last.posts[i].kind = "progress" /\ last.posts[i].completed = last.posts[i].total)
       => /\ ~last.posts[i].has_next
          /\ last.posts[i].percentage = IF last.posts[i].total > 0 THEN 100 ELSE 0
  /\ (/\ last.op = "send_progress_update"
      /\ PendingSteps(planner.implementation_steps) = <<>>
      /\ slack_integration.client)
     => /\ Len(last.posts) = 1
        /\ last.posts[1].kind = "progress"
        /\ last.posts[1].completed = Len(planner.implementation_steps)
        /\ last.posts[1].total = Len(planner.implementation_steps)
  /\ (/\ last.op = "send_next_implementation_request"
      /\ PendingSteps(planner.implementation_steps) = <<>>)
     => /\ last.ret = None /\ last.exc = NoExc
        /\ last.posts = <<>> /\ last.ev = <<>>

C14_Witness ==
  /\ last.op = "send_progress_update"
  /\ planner.implementation_steps # <<>>
  /\ PendingSteps(planner.implementation_steps) = <<>>
  /\ Len(last.posts) = 1
  /\ last.posts[1].percentage = 100
  /\ ~last.posts[1].has_next

\* C15: the progress percentage shown in a progress update is the integer floor
\* of 100 * completed / (completed + pending) for every pair of counts with a
\* positive total (3 of 7 gives 42), and 0 when the total is zero; it is always
\* between 0 and 100.
C15_PercentageIsFloor ==
  probe.fn = "slack.send_progress_update"
  => /\ probe.sent.message.percentage =
          IF probe.completed + probe.pending > 0
          THEN (100 * probe.completed) \div (probe.completed + probe.pending)
          ELSE 0
     /\ probe.sent.message.percentage \in 0..100

\* C16: saving a plan file and then re-reading it with the documentation step
\* extraction yields, for every saved step, a step with the same description
\* and the same completion state.
C16_SavedPlanReadsBack ==
  (last.op = "save_implementation_plan" /\ last.exc = NoExc)
  => \A i \in 1..Len(planner.implementation_steps) :
       \E j \in 1..Len(_extract_implementation_steps(output_folder[planner.current_plan_file])) :
         /\ _extract_implementation_steps(output_folder[planner.current_plan_file])[j].description
              = planner.implementation_steps[i].description
         /\ _extract_implementation_steps(output_folder[planner.current_plan_file])[j].completed
              = planner.implementation_steps[i].completed

\* C17: every call of save_implementation_plan creates a new plan file of its
\* own: a plan file written by an earlier save in the same process is never
\* overwritten, truncated or appended to by a later save.
C17_PlanFilesAreWriteOnce ==
  [][\A t \in 0..MaxClock :
       output_folder[t] # <<>> => output_folder'[t] = output_folder[t]]_vars

C20_RequestContextIsBuilt ==
  /\ last.sel # NoSel => last.exc # "TypeError"
  /\ \A i \in 1..Len(last.posts) :
       last.posts[i].kind = "request"
       => /\ Len(last.posts[i].context.listed) <= 3
          /\ last.posts[i].context.more > 0 => Len(last.posts[i].context.listed) = 3

\* C21: the single next task surfaced in a progress update sent by the planner
\* is the pending step with the lowest order, i.e. the same step that
\* send_next_implementation_request selects in the same state.
C21_NextTaskIsLowestOrder ==
  \A i \in 1..Len(last.posts) :
    (last.posts[i].kind = "progress" /\ last.posts[i].has_next)
    => /\ PendingSteps(planner.implementation_steps) # <<>>
       /\ last.posts[i].next_id = MinByOrder(PendingSteps(planner.implementation_steps)).id
       /\ last.posts[i].next_task
            = MinByOrder(PendingSteps(planner.implementation_steps)).description
       /\ last.sel # NoSel => last.sel = last.posts[i].next_id

\* C21 witness: a cycle sent a progress update while two steps were pending and
\* then selected a step for the request.
C21_Witness ==
  /\ last.op = "run_planning_cycle"
  /\ last.sel # NoSel
  /\ Len(PendingSteps(planner.implementation_steps)) >= 2
  /\ \E i \in 1..Len(last.posts) :
       last.posts[i].kind = "progress" /\ last.posts[i].next_id = last.sel

\* C23: validate_implementation runs the progress analyzer on exactly the one
\* given step: it returns pass if and only if that step is completed after the
\* analysis, the feedback names the commit-message method or the relevant file
\* when a completion method is recorded, and no other step of the planner's
\* list is changed.
C23_ValidateOneStep ==
  [][(last'.op = "validate_implementation" /\ calls' = calls + 1)
     => /\ Len(planner'.implementation_steps) = Len(planner.implementation_steps)
        /\ \A j \in 1..Len(planner.implementation_steps) :
             planner.implementation_steps[j].id # last'.sel
             => planner'.implementation_steps[j] = planner.implementation_steps[j]
        /\ last'.exc = NoExc
             => \E i \in 1..Len(planner'.implementation_steps) :
                  LET u == planner'.implementation_steps[i]
                  IN  /\ u.id = last'.sel
                      /\ last'.ret = (IF u.completed THEN "True" ELSE "False")
                      /\ (u.completed /\ u.completion_method = "commit_message")
                           => last'.feedback.found = "commit_messages"
                      /\ (u.completed /\ u.completion_method = "file_content")
                           => /\ last'.feedback.found = "file"
                              /\ last'.feedback.file = u.relevant_file
                              /\ u.relevant_file # NoFile
                      /\ ~u.completed => last'.feedback.found = "not_found"]_vars

\* C23 witness: a validation passed on a step that a changed file completes
\* while another step of the list is still pending.
C23_Witness ==
  /\ last.op = "validate_implementation" /\ last.ret = "True"
  /\ last.feedback.found = "file"
  /\ \E j \in 1..Len(planner.implementation_steps) :
       /\ planner.implementation_steps[j].id # last.sel
       /\ ~planner.implementation_steps[j].completed

\* the items the claim counts as the steps of one document: its checkbox items
\* with their state, or, when it has none, its numbered items, all incomplete
CheckboxItems(content) ==
  LET found == FindAll("task", content, 1)
  IN  SeqOf([i \in 1..Len(found) |->
        [description |-> Strip(found[i].group),
         completed |-> found[i].status \in {"x", "X"}]])

NumberedItems(content) ==
  LET found == FindAll("numbered", content, 1)
  IN  SeqOf([i \in 1..Len(found) |->
        [description |-> Strip(found[i].group), completed |-> FALSE]])

ItemsOfDocument(content) ==
  IF CheckboxItems(content) # <<>> THEN CheckboxItems(content)
  ELSE NumberedItems(content)

\* the items of the .md documents of a folder named as an implementation or a plan
PlanItems(folder) ==
  LET files == IF folder.exists THEN folder.files ELSE <<>>
  IN  Flatten(SeqOf([i \in 1..Len(files) |->
        IF /\ EndsWith(files[i].name, MdSuffix)
           /\ ContainsAny(Lower(files[i].name), PlanFileNames)
        THEN ItemsOfDocument(files[i].content) ELSE <<>>]))

PrefixOfCategory(c) ==
  CASE c = CatUi -> PrefixImplementUI
    [] c = CatArchitecture -> PrefixSetUp
    [] OTHER -> PrefixImplement

\* C22: step generation tries the documentation path first: when a document
\* named as an implementation or a plan has checkbox or numbered items, exactly
\* those items are the steps (checkbox state mapped to completed, numbered items
\* incomplete and used only when the document has no checkbox item) and no step
\* is synthesized; otherwise exactly one step is synthesized per requirement.
\* All steps of one extraction have the same source.
C22_DocumentationPathFirst ==
  probe.fn = "generate_implementation_steps"
  => IF PlanItems(probe.folder) # <<>>
     THEN /\ Len(probe.steps) = Len(PlanItems(probe.folder))
          /\ \A i \in 1..Len(probe.steps) :
               /\ probe.steps[i].description = PlanItems(probe.folder)[i].description
               /\ probe.steps[i].completed = PlanItems(probe.folder)[i].completed
               /\ probe.steps[i].source = "documentation"
     ELSE /\ \A i \in 1..Len(probe.steps) :
               /\ probe.steps[i].source = "generated"
               /\ ~probe.steps[i].completed
               /\ probe.steps[i].category \in Range(Categories)
          /\ \A c \in Range(Categories) : \A r \in probe.requirements[c] :
               Cardinality({i \in 1..Len(probe.steps) :
                              /\ probe.steps[i].category = c
                              /\ probe.steps[i].description = PrefixOfCategory(c) \o r}) = 1
          /\ Len(probe.steps)
               = Cardinality(probe.requirements[CatFunctional])
                 + Cardinality(probe.requirements[CatTechnical])
                 + Cardinality(probe.requirements[CatUi])
                 + Cardinality(probe.requirements[CatArchitecture])

\* C22 witness: a plan with a numbered item and a checked checkbox item gave
\* the checkbox item alone, as a completed step.
C22_Witness ==
  /\ probe.fn = "generate_implementation_steps"
  /\ probe.folder = FolderMixed
  /\ Len(probe.steps) = 1
  /\ probe.steps[1].completed
  /\ probe.steps[1].source = "documentation"

\* a folder with requirements and two plan documents gave the plan's items only
C22_PlanBesideRequirements ==
  /\ probe.fn = "generate_implementation_steps"
  /\ probe.folder = FolderBoth
  /\ probe.requirements[CatFunctional] # {}
  /\ Len(probe.steps) = 4
  /\ \A i \in 1..4 : probe.steps[i].source = "documentation"

\* a plan document without items left the steps to the requirements
C22_PlanWithoutItems ==
  /\ probe.fn = "generate_implementation_steps"
  /\ probe.folder = FolderNotes
  /\ probe.steps # <<>>
  /\ \A i \in 1..Len(probe.steps) : probe.steps[i].source = "generated"

\* the operations of the planner that run the progress analyzer on steps of its list
AnalyzerCallers ==
  {"update_implementation_progress", "validate_implementation", "run_planning_cycle"}

\* what the analyzer may write to a step: completed, completion_method, relevant_file
SameButAnalysis(s, t) ==
  /\ t.id = s.id
  /\ t.description = s.description
  /\ t.category = s.category
  /\ t.order = s.order
  /\ t.source = s.source

\* C24: analyze_implementation_progress returns the same steps, in the same
\* number and the same order as given; on a step that was already completed it
\* changes no field, and on a pending step it changes nothing except completed,
\* completion_method and relevant_file (description, id, category, order and
\* source are left unchanged).
C24_AnalysisFrame ==
  [][(/\ calls' = calls + 1
      /\ last'.op \in AnalyzerCallers
      /\ planner.implementation_steps # <<>>)
     => /\ Len(planner'.implementation_steps) = Len(planner.implementation_steps)
        /\ \A i \in 1..Len(planner.implementation_steps) :
             /\ SameButAnalysis(planner.implementation_steps[i],
                                planner'.implementation_steps[i])
             /\ planner.implementation_steps[i].completed
                  => /\ planner'.implementation_steps[i].completed
                     /\ planner'.implementation_steps[i].completion_method
                          = planner.implementation_steps[i].completion_method
                     /\ planner'.implementation_steps[i].relevant_file
                          = planner.implementation_steps[i].relevant_file]_vars

\* C24 witness: an analysis of a list that held a step documented as done
\* returned, with that step as it was and another step found completed.
C24_Witness ==
  /\ last.op = "update_implementation_progress"
  /\ last.exc = NoExc
  /\ \E i, j \in 1..Len(planner.implementation_steps) :
       /\ planner.implementation_steps[i].completed
       /\ planner.implementation_steps[i].completion_method = Absent
       /\ planner.implementation_steps[j].completed
       /\ planner.implementation_steps[j].completion_method # Absent

\* C25: in every reachable state of the planner's step list, a step that
\* carries relevant_file has completion_method = file_content, a step with
\* completion_method = commit_message carries no relevant_file, and every step
\* that carries a completion_method has completed = true.
C25_CompletionFieldsAgree ==
  \A i \in 1..Len(planner.implementation_steps) :
    LET s == planner.implementation_steps[i]
    IN  /\ s.relevant_file # NoFile => s.completion_method = "file_content"
        /\ s.completion_method = "commit_message" => s.relevant_file = NoFile
        /\ s.completion_method # Absent => s.completed

\* C25 witness: the list holds a step completed by the content of a file, which
\* it names, beside a step that carries no completion method.
C25_Witness ==
  \E i, j \in 1..Len(planner.implementation_steps) :
    /\ planner.implementation_steps[i].completion_method = "file_content"
    /\ planner.implementation_steps[i].relevant_file # NoFile
    /\ planner.implementation_steps[j].completion_method = Absent

\* C26: after analyze_requirements, and after any later sequence of
\* update_implementation_progress and send operations, the steps' order values
\* are exactly 0..n-1 with no duplicates, each step's order equals its position
\* in the planner's list (counted from 0), and step ids are pairwise distinct.
C26_OrderIsPosition ==
  /\ \A i \in 1..Len(planner.implementation_steps) :
       planner.implementation_steps[i].order = i - 1
  /\ {planner.implementation_steps[i].order : i \in 1..Len(planner.implementation_steps)}
       = 0..(Len(planner.implementation_steps) - 1)
  /\ \A i, j \in 1..Len(planner.implementation_steps) :
       planner.implementation_steps[i].id = planner.implementation_steps[j].id => i = j

\* C26 witness: a request was sent for a list of several steps after an
\* analysis that found a later step of the list completed.
C26_Witness ==
  /\ last.op \in {"send_next_implementation_request", "run_planning_cycle"}
  /\ last.sel # NoSel
  /\ Len(planner.implementation_steps) >= 2
  /\ \E i \in 2..Len(planner.implementation_steps) :
       /\ planner.implementation_steps[i].completion_method # Absent
       /\ ~planner.implementation_steps[1].completed

\* the step as another run of the analysis leaves it, the changed files being
\* iterated in the order `other`
OtherRun(other) ==
  analyze_implementation_progress(<<probe.step>>, probe.repo, probe.git, other)

\* C27: for the same step list and the same history (commit messages,
\* changed-file set, file contents), two runs of analyze_implementation_progress
\* that iterate the changed files in different orders give every step the same
\* completed value and the same completion_method; only relevant_file may
\* differ between the two runs.
C27_FileOrderIrrelevant ==
  probe.fn = "analyze_implementation_progress"
  => \A other \in FileOrders(probe.repo, probe.git) :
       /\ OtherRun(other).steps[1].completed = probe.result.steps[1].completed
       /\ OtherRun(other).steps[1].completion_method
            = probe.result.steps[1].completion_method

\* the same for two runs that both return
C27_ReturningRunsAgree ==
  (probe.fn = "analyze_implementation_progress" /\ probe.result.exc = NoExc)
  => \A other \in FileOrders(probe.repo, probe.git) :
       OtherRun(other).exc = NoExc
       => /\ OtherRun(other).steps[1].completed = probe.result.steps[1].completed
          /\ OtherRun(other).steps[1].completion_method
               = probe.result.steps[1].completion_method

\* two returning runs over the same history recorded different files
C27_FilesDiffer ==
  /\ probe.fn = "analyze_implementation_progress"
  /\ probe.result.exc = NoExc
  /\ \E other \in FileOrders(probe.repo, probe.git) :
       /\ OtherRun(other).exc = NoExc
       /\ OtherRun(other).steps[1].relevant_file # probe.result.steps[1].relevant_file

\* a non-empty step list in which every step is completed
AllCompleted(steps) ==
  /\ steps # <<>>
  /\ \A i \in 1..Len(steps) : steps[i].completed

\* C28: in continuous-loop mode, once a cycle ends with a non-empty step list
\* in which every step is completed, no later cycle of the same process re-runs
\* extraction or sends an implementation request; each later cycle sends only
\* a progress update. (As a step relation: while the loop runs, a list that is
\* all completed stays so, and a cycle that starts from it does not extract,
\* makes no request, posts nothing but the progress update, and calls the
\* progress sender whenever it ends without exception.)
C28_CompletedLoopOnlyReports ==
  [][(loop # "idle" /\ AllCompleted(planner.implementation_steps))
     => /\ AllCompleted(planner'.implementation_steps)
        /\ (loop = "cycle" /\ loop' # loop)
             => /\ last'.op = "loop_cycle"
                /\ "extract" \notin Range(last'.ev)
                /\ "send_request" \notin Range(last'.ev)
                /\ last'.sel = NoSel
                /\ \A i \in 1..Len(last'.posts) : last'.posts[i].kind = "progress"
                /\ Len(last'.posts) <= 1
                /\ last'.exc = NoExc => "send_progress" \in Range(last'.ev)]_vars

\* C28 witness: a process started in loop mode ran a cycle that extracted the
\* steps and found them all completed, slept, and ran a second cycle, which
\* did not extract and posted the progress update alone.
C28_Witness ==
  /\ cli.pc = "loop" /\ cli.command = "run_loop"
  /\ loop = "sleep" /\ last.op = "loop_cycle" /\ calls = 2
  /\ AllCompleted(planner.implementation_steps)
  /\ "extract" \notin Range(last.ev)
  /\ Len(last.posts) = 1 /\ last.posts[1].kind = "progress"
  /\ \E i \in 1..Len(planner.implementation_steps) :
       planner.implementation_steps[i].completion_method # Absent

\* the first cycle of a loop ended with every step completed
C28_FirstCycleCompletes ==
  /\ loop = "sleep" /\ last.op = "loop_cycle" /\ calls = 1
  /\ "extract" \in Range(last.ev)
  /\ AllCompleted(planner.implementation_steps)
====
